---- MODULE Spec2Model ----
(***************************************************************************)
(* Perfmon: a terminal dashboard that samples system metrics, keeps a      *)
(* bounded rolling history per metric, lays out a tab bar in a given       *)
(* width, sanitizes captured command output and runs the command of the    *)
(* active tab on a refresh tick.                                           *)
(*                                                                         *)
(* The module holds one state machine per component, each with its own     *)
(* specification over the shared variable tuple:                           *)
(*   SpecHistory   monitor.UpdateHistory / trimHistory                     *)
(*   SpecTabs      ui.Model.renderTabs (FairSpecTabs: its loops advance)   *)
(*   SpecSanitize  ui.sanitizeOutput                                       *)
(*   SpecUI        ui.Model Init / Update / onTabSelected                  *)
(*   SpecNav       the same, for a dashboard of three tabs                 *)
(*   SpecPair      the same, for an enabled and a disabled tab             *)
(*   FairSpecLoop  the same, two tabs, with the runtime's progress         *)
(*   SpecNet       monitor.getNetRateKB, readNetBytes                      *)
(*   SpecSampling  the two sampling commands of a refresh tick             *)
(*   SpecCPU       monitor.getCPUUsage, cpuFromVmstat, cpuFromMpstat       *)
(*   SpecConfig    config.validateTab                                      *)
(*   SpecLoad      config.Load, loadFromConfig, buildDefaultTabs           *)
(*   SpecFormat    monitor.FormatRate                                      *)
(***************************************************************************)
EXTENDS Integers, Sequences, FiniteSets, TLC

VARIABLES
    \* ---- history ring (monitor.MetricHistory) ----
    metrics,      \* MetricHistory: [Load, CPU, Mem, Net], each a sequence
    appended,     \* history variable: every valid reading ever appended, per channel
    hsample,      \* the MetricsSample handled by the last UpdateHistory call
    hprev,        \* the MetricHistory before the last UpdateHistory call
    nUpdates,     \* number of UpdateHistory calls so far
    nSparse,      \* number of those calls whose sample missed a channel
    \* ---- tab bar layout (ui.Model.renderTabs) ----
    tTabs,        \* tabs: index 0..n-1 -> [TitleWidth]
    tActive,      \* active
    tWidth,       \* width
    tpc,          \* position in renderTabs: "start", "grow", "shrink", "done"
    left,
    right,
    used,
    leftOverflow,
    rightOverflow,
    overflowWidth,
    row,          \* the result: [rendered, parts]
    \* ---- output sanitizer (ui.sanitizeOutput) ----
    sInput,       \* the captured text, a sequence of bytes
    sOutput,      \* sanitizeOutput(sInput)
    sOutput2,     \* sanitizeOutput(sOutput)
    spc,          \* "ready", "once", "twice"
    \* ---- dashboard model (ui.Model) and the runtime that drives it ----
    tabs,         \* m.tabs: index 0..n-1 -> config.Tab
    active,       \* m.active
    content,      \* m.content
    viewport,     \* the text m.viewport holds (viewport.SetContent)
    statusLine,   \* m.statusLine
    themeIndex,   \* m.themeIndex
    spinnerIdx,   \* m.spinnerIdx
    running,      \* commands in flight: tab index -> number of runCommandCmd running
    ticksPending,     \* tick timers armed
    spinnersPending,  \* spinner timers armed
    lastMsg,      \* the message handled by the last Update call
    launched,     \* tab indexes whose command the last Init/Update call launched
    sampling,     \* the samplers with a result still to come (a sampler started
                  \* again before its result came is counted once)
    system,       \* m.system
    size,         \* m.width, m.height and the viewport's Width and Height
    upc,          \* "new" (constructed), "running" (Init called), "quit"
    \* ---- network rate (monitor.getNetRateKB) ----
    netPrevTotal, \* var netPrevTotal uint64
    netPrevAt,    \* var netPrevAt time.Time; 0 is the zero time
    clock,        \* time.Now()
    netRead,      \* what readNetBytes returned to the last call: [total, ok]
    netBefore,    \* the baseline the last call found: [total, at]
    netCallAt,    \* time.Now() as the last call read it
    netResult,    \* what the last call returned: [delta, secs, ok]
    netCalls,     \* number of calls so far
    \* ---- the two sampling commands of one refresh tick ----
    smpPc,        \* per command: its position in getNetRateKB
    smpLocal,     \* per command: the locals total, now, secs, delta and the return value
    smpTicks,     \* refresh ticks handled so far
    \* ---- CPU usage (monitor.getCPUUsage) ----
    cpuEnv,       \* which tools are on the path and what they print
    cpuResult,    \* what getCPUUsage returned: [value, ok, consulted]
    cpuPc,        \* "ready", "done"
    \* ---- tab validation (config.validateTab) ----
    cfgTab,       \* the tab handed to validateTab
    cfgFound,     \* whether exec.LookPath finds the first word of its command
    cfgResult,    \* the tab validateTab returned
    cfgPc,        \* "ready", "done"
    \* ---- loading the tabs (config.Load) ----
    ldEnv,        \* the environment Load runs in: PERFMON_CONFIG, the files, the path
    ldResult,     \* what Load returned: [cfg, tabs]
    ldPc,         \* "ready", "done"
    \* ---- rate formatting (monitor.FormatRate) ----
    fRate,        \* the rate handed to FormatRate, in quarters of a KB/s
    fText,        \* the string FormatRate returned
    fPc           \* "ready", "done"

histVars == <<metrics, appended, hsample, hprev, nUpdates, nSparse>>
tabVars == <<tTabs, tActive, tWidth, tpc, left, right, used,
             leftOverflow, rightOverflow, overflowWidth, row>>

sanVars == <<sInput, sOutput, sOutput2, spc>>

uiVars == <<tabs, active, content, viewport, statusLine, themeIndex, spinnerIdx,
            running, ticksPending, spinnersPending, lastMsg, launched, sampling,
            system, size, upc>>

netVars == <<netPrevTotal, netPrevAt, clock, netRead, netBefore, netCallAt,
             netResult, netCalls>>

smpVars == <<smpPc, smpLocal, smpTicks>>

cpuVars == <<cpuEnv, cpuResult, cpuPc>>

cfgVars == <<cfgTab, cfgFound, cfgResult, cfgPc>>

loadVars == <<ldEnv, ldResult, ldPc>>

fmtVars == <<fRate, fText, fPc>>

vars == <<histVars, tabVars, sanVars, uiVars, netVars, smpVars, cpuVars, cfgVars,
          loadVars, fmtVars>>

Min(a, b) == IF a <= b THEN a ELSE b

(***************************************************************************)
(* Each specification runs one component and leaves the variables of the   *)
(* others at the values below.                                             *)
(***************************************************************************)
EmptyHistory == [Load |-> <<>>, CPU |-> <<>>, Mem |-> <<>>, Net |-> <<>>]

ZeroSample == [Load |-> 0, CPU |-> 0, Mem |-> 0, NetKB |-> 0,
               OkLoad |-> FALSE, OkCPU |-> FALSE, OkMem |-> FALSE, OkNet |-> FALSE]

HistoryIdle ==
    /\ metrics = EmptyHistory
    /\ appended = EmptyHistory
    /\ hsample = ZeroSample
    /\ hprev = EmptyHistory
    /\ nUpdates = 0
    /\ nSparse = 0

NoRow == [rendered |-> FALSE, parts |-> <<>>]

TabsIdle ==
    /\ tTabs = [i \in {0} |-> [TitleWidth |-> 1]]
    /\ tActive = 0
    /\ tWidth = 0
    /\ tpc = "idle"
    /\ left = 0
    /\ right = 0
    /\ used = 0
    /\ leftOverflow = FALSE
    /\ rightOverflow = FALSE
    /\ overflowWidth = 0
    /\ row = NoRow

SanitizeIdle ==
    /\ sInput = <<>>
    /\ sOutput = <<>>
    /\ sOutput2 = <<>>
    /\ spc = "idle"

NoMsg == [type |-> "none", key |-> "", err |-> ""]

\* monitor.SystemInfo{}
NoSystem == [Uptime |-> "", Disk |-> "", Net |-> ""]

\* width, height and the viewport's dimensions before the first WindowSizeMsg
NoSize == [width |-> 0, height |-> 0, vpWidth |-> 0, vpHeight |-> 0]

UIIdle ==
    /\ tabs = <<>>
    /\ active = 0
    /\ content = ""
    /\ viewport = ""
    /\ statusLine = ""
    /\ themeIndex = 0
    /\ spinnerIdx = 0
    /\ running = <<>>
    /\ ticksPending = 0
    /\ spinnersPending = 0
    /\ lastMsg = NoMsg
    /\ launched = {}
    /\ sampling = {}
    /\ system = NoSystem
    /\ size = NoSize
    /\ upc = "idle"

\* return 0, false
NoRate == [delta |-> 0, secs |-> 0, ok |-> FALSE]

NetIdle ==
    /\ netPrevTotal = 0
    /\ netPrevAt = 0
    /\ clock = 1
    /\ netRead = [total |-> 0, ok |-> FALSE]
    /\ netBefore = [total |-> 0, at |-> 0]
    /\ netCallAt = 0
    /\ netResult = NoRate
    /\ netCalls = 0

\* The sampling commands of a tick: none started.
Samplers == {"metrics", "system"}

NoLocals == [total |-> 0, now |-> 0, secs |-> 0, delta |-> 0, ret |-> NoRate]

SamplingIdle ==
    /\ smpPc = [p \in Samplers |-> "idle"]
    /\ smpLocal = [p \in Samplers |-> NoLocals]
    /\ smpTicks = 0

NoCPU == [value |-> [kind |-> "num", v |-> 0], ok |-> FALSE, consulted |-> << >>]

CPUIdle ==
    /\ cpuEnv = << >>
    /\ cpuResult = NoCPU
    /\ cpuPc = "idle"

ConfigIdle ==
    /\ cfgTab = << >>
    /\ cfgFound = FALSE
    /\ cfgResult = << >>
    /\ cfgPc = "idle"

LoadIdle ==
    /\ ldEnv = << >>
    /\ ldResult = << >>
    /\ ldPc = "idle"

FormatIdle ==
    /\ fRate = 0
    /\ fText = ""
    /\ fPc = "idle"

(***************************************************************************)
(* Tab bar layout                                                          *)
(***************************************************************************)
\* Bounds of the tab bar specification.
MaxTabs == 5
MaxTitle == 2
MaxWidth == 21

\* lipgloss.Width(style.Render(" " + t.Title + " ")): every tab style pads
\* one column on each side (Padding(0, 1)), whatever its colours.
CellWidth(t) == (1 + t.TitleWidth + 1) + (1 + 1)

\* lipgloss.Width(m.styles.Overflow.Render(" … "))
OverflowCellWidth == 3 + (1 + 1)

NumTabs(ts) == Cardinality(DOMAIN ts)

renderedWidths(ts) == [i \in DOMAIN ts |-> CellWidth(ts[i])]

RECURSIVE SumTo(_, _)
SumTo(w, k) == IF k < 0 THEN 0 ELSE w[k] + SumTo(w, k - 1)

\* total := sum of renderedWidths
TotalWidth(ts) == SumTo(renderedWidths(ts), NumTabs(ts) - 1)

TabCell(i) == [kind |-> "tab", index |-> i]
OverflowCell == [kind |-> "overflow", index |-> 0]

\* rendered[from], ..., rendered[to]
Cells(from, to) == [k \in 1..(to - from + 1) |-> TabCell(from + k - 1)]

\* A guard that lets a width of 0 through.
NothingToRenderNegativeOnly(width) == width < 0

\* if width <= 0 { return "" }
NothingToRender(width) == width <= 0

\* if total <= width { render all cells }
FitsAll(total, width) == total <= width

\* A growth test that leaves the last column unused.
CanGrowLeftBelowWidth(l, u, w, width) == l > 0 /\ u + w[l - 1] < width

\* if left > 0 && used+renderedWidths[left-1] <= width
CanGrowLeft(l, u, w, width) == l > 0 /\ u + w[l - 1] <= width

CanGrowRight(r, u, w, width, n) == r < n - 1 /\ u + w[r + 1] <= width

LeftOverflow(l) == l > 0

\* A right-hand test that compares with len(tabs) instead of len(tabs)-1.
RightOverflowOffByOne(r, n) == r < n

RightOverflow(r, n) == r < n - 1

OverflowWidth(lo, ro) ==
    (IF lo THEN OverflowCellWidth ELSE 0) + (IF ro THEN OverflowCellWidth ELSE 0)

\* A loop test that forgets the markers.
ShrinkCondWithoutMarkers(l, r, a, u, ow, width) == u > width /\ (l < a \/ r > a)

\* for used+overflowWidth > width && (left < active || right > active)
ShrinkCond(l, r, a, u, ow, width) == u + ow > width /\ (l < a \/ r > a)

\* A shrink test that stops at the left edge instead of at the active tab.
ShrinkRightPastActive(l, r, a, u, ow, w) == r > l /\ u + ow - w[r] >= 0

\* A shrink test that takes the right cell only when the right end is at
\* least as far from the active tab as the left end.
ShrinkRightIfFarther(l, r, a, u, ow, w) ==
    r > a /\ r - a >= a - l /\ u + ow - w[r] >= 0

\* if right > active && used+overflowWidth-renderedWidths[right] >= 0
ShrinkRight(l, r, a, u, ow, w) == r > a /\ u + ow - w[r] >= 0

\* else if left < active && used+overflowWidth-renderedWidths[left] >= 0
ShrinkLeft(l, r, a, u, ow, w) == l < a /\ u + ow - w[l] >= 0

\* parts: left marker, rendered[left..right], right marker
Parts(l, r, lo, ro) ==
    (IF lo THEN <<OverflowCell>> ELSE <<>>) \o Cells(l, r) \o
    (IF ro THEN <<OverflowCell>> ELSE <<>>)

TabLists ==
    UNION {[0..(n - 1) -> [TitleWidth : 1..MaxTitle]] : n \in 1..MaxTabs}

InitTabs ==
    /\ SamplingIdle
    /\ CPUIdle
    /\ ConfigIdle
    /\ LoadIdle
    /\ FormatIdle
    /\ NetIdle
    /\ UIIdle
    /\ HistoryIdle
    /\ SanitizeIdle
    /\ tTabs \in TabLists
    /\ tActive \in DOMAIN tTabs
    /\ tWidth \in (0 - 1)..MaxWidth
    /\ tpc = "start"
    /\ left = 0
    /\ right = 0
    /\ used = 0
    /\ leftOverflow = FALSE
    /\ rightOverflow = FALSE
    /\ overflowWidth = 0
    /\ row = NoRow

\* renderTabs up to the start of the growth loop.
RenderNothing ==
    /\ tpc = "start"
    /\ NothingToRender(tWidth)
    /\ tpc' = "done"
    /\ row' = NoRow
    /\ UNCHANGED <<tTabs, tActive, tWidth, left, right, used,
                   leftOverflow, rightOverflow, overflowWidth>>
    /\ UNCHANGED <<histVars, sanVars, uiVars, netVars, smpVars, cpuVars, cfgVars, loadVars, fmtVars>>

RenderAll ==
    /\ tpc = "start"
    /\ ~NothingToRender(tWidth)
    /\ FitsAll(TotalWidth(tTabs), tWidth)
    /\ tpc' = "done"
    /\ row' = [rendered |-> TRUE, parts |-> Cells(0, NumTabs(tTabs) - 1)]
    /\ UNCHANGED <<tTabs, tActive, tWidth, left, right, used,
                   leftOverflow, rightOverflow, overflowWidth>>
    /\ UNCHANGED <<histVars, sanVars, uiVars, netVars, smpVars, cpuVars, cfgVars, loadVars, fmtVars>>

RenderWindow ==
    /\ tpc = "start"
    /\ ~NothingToRender(tWidth)
    /\ ~FitsAll(TotalWidth(tTabs), tWidth)
    /\ left' = tActive
    /\ right' = tActive
    /\ used' = renderedWidths(tTabs)[tActive]
    /\ tpc' = "grow"
    /\ UNCHANGED <<tTabs, tActive, tWidth, leftOverflow, rightOverflow,
                   overflowWidth, row>>
    /\ UNCHANGED <<histVars, sanVars, uiVars, netVars, smpVars, cpuVars, cfgVars, loadVars, fmtVars>>

\* One iteration of the growth loop that grew the window.
GrowStep ==
    /\ tpc = "grow"
    /\ LET w == renderedWidths(tTabs)
           n == NumTabs(tTabs)
           gl == CanGrowLeft(left, used, w, tWidth)
           l1 == IF gl THEN left - 1 ELSE left
           u1 == IF gl THEN used + w[l1] ELSE used
           gr == CanGrowRight(right, u1, w, tWidth, n)
           r1 == IF gr THEN right + 1 ELSE right
           u2 == IF gr THEN u1 + w[r1] ELSE u1
       IN /\ gl \/ gr
          /\ left' = l1
          /\ right' = r1
          /\ used' = u2
    /\ UNCHANGED <<tTabs, tActive, tWidth, tpc, leftOverflow, rightOverflow,
                   overflowWidth, row>>
    /\ UNCHANGED <<histVars, sanVars, uiVars, netVars, smpVars, cpuVars, cfgVars, loadVars, fmtVars>>

\* The iteration that did not grow: break, then compute the overflow markers.
GrowEnd ==
    /\ tpc = "grow"
    /\ LET w == renderedWidths(tTabs)
           n == NumTabs(tTabs)
       IN /\ ~CanGrowLeft(left, used, w, tWidth)
          /\ ~CanGrowRight(right, used, w, tWidth, n)
          /\ leftOverflow' = LeftOverflow(left)
          /\ rightOverflow' = RightOverflow(right, n)
          /\ overflowWidth' = OverflowWidth(LeftOverflow(left), RightOverflow(right, n))
    /\ tpc' = "shrink"
    /\ UNCHANGED <<tTabs, tActive, tWidth, left, right, used, row>>
    /\ UNCHANGED <<histVars, sanVars, uiVars, netVars, smpVars, cpuVars, cfgVars, loadVars, fmtVars>>

\* One iteration of the shrink loop that removed a cell.
ShrinkStep ==
    /\ tpc = "shrink"
    /\ ShrinkCond(left, right, tActive, used, overflowWidth, tWidth)
    /\ LET w == renderedWidths(tTabs)
           n == NumTabs(tTabs)
           sr == ShrinkRight(left, right, tActive, used, overflowWidth, w)
           sl == ~sr /\ ShrinkLeft(left, right, tActive, used, overflowWidth, w)
           l1 == IF sl THEN left + 1 ELSE left
           r1 == IF sr THEN right - 1 ELSE right
       IN /\ sr \/ sl
          /\ used' = IF sr THEN used - w[right] ELSE used - w[left]
          /\ left' = l1
          /\ right' = r1
          /\ leftOverflow' = LeftOverflow(l1)
          /\ rightOverflow' = RightOverflow(r1, n)
          /\ overflowWidth' = OverflowWidth(LeftOverflow(l1), RightOverflow(r1, n))
    /\ UNCHANGED <<tTabs, tActive, tWidth, tpc, row>>
    /\ UNCHANGED <<histVars, sanVars, uiVars, netVars, smpVars, cpuVars, cfgVars, loadVars, fmtVars>>

\* Loop exit (condition false, or break), then the row is assembled.
ShrinkEnd ==
    /\ tpc = "shrink"
    /\ LET w == renderedWidths(tTabs) IN
        \/ ~ShrinkCond(left, right, tActive, used, overflowWidth, tWidth)
        \/ /\ ~ShrinkRight(left, right, tActive, used, overflowWidth, w)
           /\ ~ShrinkLeft(left, right, tActive, used, overflowWidth, w)
    /\ row' = [rendered |-> TRUE,
               parts |-> Parts(left, right, leftOverflow, rightOverflow)]
    /\ tpc' = "done"
    /\ UNCHANGED <<tTabs, tActive, tWidth, left, right, used,
                   leftOverflow, rightOverflow, overflowWidth>>
    /\ UNCHANGED <<histVars, sanVars, uiVars, netVars, smpVars, cpuVars, cfgVars, loadVars, fmtVars>>

NextTabs ==
    \/ RenderNothing
    \/ RenderAll
    \/ RenderWindow
    \/ GrowStep
    \/ GrowEnd
    \/ ShrinkStep
    \/ ShrinkEnd

SpecTabs == InitTabs /\ [][NextTabs]_vars

\* The tabs do not all fit: renderTabs takes the window path.
Windowed == tWidth > 0 /\ TotalWidth(tTabs) > tWidth

InParts(c) == \E k \in 1..Len(row.parts) : row.parts[k] = c

\* C3: for every non-empty tab list, active index and width > 0 the window
\* satisfies 0 <= left <= active <= right <= len(tabs)-1 at every point of the
\* layout, and the finished row holds the whole cell of the active tab, also
\* when that cell alone is wider than the width.
C3_ActiveTabVisible ==
    /\ (Windowed /\ tpc \in {"grow", "shrink", "done"}) =>
            /\ 0 <= left /\ left <= tActive
            /\ tActive <= right /\ right <= NumTabs(tTabs) - 1
    /\ (tpc = "done" /\ tWidth > 0) =>
            /\ row.rendered
            /\ InParts(TabCell(tActive))
            /\ Windowed => \A i \in DOMAIN tTabs :
                              InParts(TabCell(i)) <=> (left <= i /\ i <= right)

\* The active cell alone is wider than the width, with tabs on both sides.
C3_Witness ==
    /\ tpc = "done"
    /\ tWidth > 0
    /\ CellWidth(tTabs[tActive]) > tWidth
    /\ 0 < tActive /\ tActive < NumTabs(tTabs) - 1
    /\ InParts(TabCell(tActive))

\* C4: when the tabs do not all fit, the row carries a left marker iff
\* left > 0 and a right marker iff right < len(tabs)-1, for the final window.
C4_MarkersExactlyOnHiddenSides ==
    (tpc = "done" /\ Windowed) =>
        /\ leftOverflow <=> left > 0
        /\ rightOverflow <=> right < NumTabs(tTabs) - 1
        /\ row.parts[1] = OverflowCell <=> ~InParts(TabCell(0))
        /\ row.parts[Len(row.parts)] = OverflowCell
                <=> ~InParts(TabCell(NumTabs(tTabs) - 1))
        /\ \A k \in 2..(Len(row.parts) - 1) : row.parts[k] # OverflowCell

\* Tabs hidden on the left only: one marker, in front.
C4_Witness ==
    /\ tpc = "done"
    /\ Windowed
    /\ left > 0
    /\ right = NumTabs(tTabs) - 1
    /\ row.parts[1] = OverflowCell
    /\ row.parts[Len(row.parts)] = TabCell(right)

\* C5: when all cells fit in a width > 0 the row is every tab in list order
\* with no marker; when the width is <= 0 nothing is rendered.
C5_AllFitOrNothing ==
    tpc = "done" =>
        /\ (tWidth > 0 /\ TotalWidth(tTabs) <= tWidth) =>
                /\ row.rendered
                /\ Len(row.parts) = NumTabs(tTabs)
                /\ \A k \in 1..Len(row.parts) : row.parts[k] = TabCell(k - 1)
        /\ tWidth <= 0 => (~row.rendered /\ row.parts = <<>>)

\* Three or more tabs that fill the width exactly.
C5_Witness ==
    /\ tpc = "done"
    /\ NumTabs(tTabs) >= 3
    /\ TotalWidth(tTabs) = tWidth
    /\ Len(row.parts) = NumTabs(tTabs)

\* renderTabs is straight-line code: a loop that can take another iteration
\* takes it.
FairSpecTabs == SpecTabs /\ WF_vars(NextTabs)

\* The widths of the cells left..right.
WindowWidth(l, r) ==
    LET w == renderedWidths(tTabs)
    IN  SumTo(w, r) - SumTo(w, l - 1)

\* The width of the markers the flags ask for.
MarkersWidth == (IF leftOverflow THEN 5 ELSE 0) + (IF rightOverflow THEN 5 ELSE 0)

\* C25: when the tabs do not all fit, the layout ends with the visible cells
\* plus the markers shown within the width, or with the window collapsed to
\* the active tab alone; every shrink step removes one cell and sets the
\* markers anew from the window it leaves, and the shrink loop always ends.
C25_ShrinkFitsOrCollapses ==
    /\ [](tpc \in {"shrink", "done"} /\ Windowed
            => /\ used = WindowWidth(left, right)
               /\ leftOverflow <=> left > 0
               /\ rightOverflow <=> right < NumTabs(tTabs) - 1
               /\ overflowWidth = MarkersWidth)
    /\ [](tpc = "done" /\ Windowed
            => \/ used + overflowWidth <= tWidth
               \/ left = tActive /\ right = tActive)
    /\ [][ShrinkStep => (right' - left') = (right - left) - 1]_vars
    /\ (tpc = "shrink" ~> tpc = "done")

\* A cell was taken off the right to make room for the markers, and tabs on
\* both sides of the active one are still shown within the width.
C25_Witness ==
    /\ tpc = "done"
    /\ Windowed
    /\ left < tActive
    /\ tActive < right
    /\ CanGrowRight(right, used, renderedWidths(tTabs), tWidth, NumTabs(tTabs))
    /\ used + overflowWidth <= tWidth

C27_GrowthIsMaximal ==
    /\ [][RenderWindow
            => left' = tActive /\ right' = tActive
               /\ used' = CellWidth(tTabs[tActive])]_vars
    /\ [][GrowStep
            => LET w == renderedWidths(tTabs)
                   fitsLeft == left > 0 /\ used + w[left - 1] <= tWidth
                   mid == IF fitsLeft THEN used + w[left - 1] ELSE used
                   fitsRight == right < NumTabs(tTabs) - 1
                                  /\ mid + w[right + 1] <= tWidth
               IN  /\ left' = (IF fitsLeft THEN left - 1 ELSE left)
                   /\ right' = (IF fitsRight THEN right + 1 ELSE right)
                   /\ used' = WindowWidth(left', right')
                   /\ used' <= tWidth]_vars
    /\ [][GrowEnd
            => LET w == renderedWidths(tTabs)
               IN  /\ left = 0 \/ used + w[left - 1] > tWidth
                   /\ right = NumTabs(tTabs) - 1 \/ used + w[right + 1] > tWidth
                   /\ left' = left /\ right' = right /\ used' = used]_vars
    /\ (tpc = "grow" ~> tpc = "shrink")

\* Growth has ended with tabs shown on both sides of the active one and
\* tabs hidden on both sides.
C27_Witness ==
    /\ tpc = "shrink"
    /\ 0 < left
    /\ left < tActive
    /\ tActive < right
    /\ right < NumTabs(tTabs) - 1
    /\ used <= tWidth

(***************************************************************************)
(* Output sanitizer.  Text is a sequence of byte values; the pattern is    *)
(* \x1b\[[\d;?]*[@-ln-~] and every match is replaced by the empty string.  *)
(***************************************************************************)
\* Bound of the sanitizer specification.
MaxLen == 6

\* The bytes the inputs are built from: ESC, '[', '1', 'm', 'H', ' '.
InputBytes == {27, 91, 49, 109, 72, 32}

\* \x1b
IsEsc(b) == b = 27

\* \[
IsBracket(b) == b = 91

\* [\d;?]
IsParam(b) == (48 <= b /\ b <= 57) \/ b = 59 \/ b = 63

\* the SGR terminator 'm'
IsSgrFinal(b) == b = 109

\* A final-byte class that does not leave out 'm': [@-~]
IsRemovedFinalWithM(b) == 64 <= b /\ b <= 126

\* [@-ln-~]
IsRemovedFinal(b) == (64 <= b /\ b <= 108) \/ (110 <= b /\ b <= 126)

\* [\d;?]* is greedy: the index of the first byte at or after i that is not
\* a parameter byte (Len(s) + 1 when there is none).
RECURSIVE ParamsEnd(_, _)
ParamsEnd(s, i) ==
    IF i <= Len(s) /\ IsParam(s[i]) THEN ParamsEnd(s, i + 1) ELSE i

\* The index of the last byte of the match that starts at i, or 0 when the
\* pattern does not match at i.  No parameter byte is a final byte, so giving
\* back parameter bytes never produces a match.
MatchEnd(s, i) ==
    IF i + 1 <= Len(s) /\ IsEsc(s[i]) /\ IsBracket(s[i + 1])
    THEN LET j == ParamsEnd(s, i + 2)
         IN IF j <= Len(s) /\ IsRemovedFinal(s[j]) THEN j ELSE 0
    ELSE 0

\* re.ReplaceAllString(input, ""): leftmost matches, left to right, not overlapping.
RECURSIVE ReplaceAllFrom(_, _)
ReplaceAllFrom(s, i) ==
    IF i > Len(s)
    THEN <<>>
    ELSE LET e == MatchEnd(s, i)
         IN IF e > 0
            THEN ReplaceAllFrom(s, e + 1)
            ELSE <<s[i]>> \o ReplaceAllFrom(s, i + 1)

sanitizeOutput(input) == ReplaceAllFrom(input, 1)

Texts == UNION {[1..n -> InputBytes] : n \in 0..MaxLen}

InitSanitize ==
    /\ SamplingIdle
    /\ CPUIdle
    /\ ConfigIdle
    /\ LoadIdle
    /\ FormatIdle
    /\ NetIdle
    /\ UIIdle
    /\ HistoryIdle
    /\ TabsIdle
    /\ sInput \in Texts
    /\ sOutput = <<>>
    /\ sOutput2 = <<>>
    /\ spc = "ready"

\* Update, case cmdResultMsg: m.content = sanitizeOutput(...)
Sanitize ==
    /\ spc = "ready"
    /\ sOutput' = sanitizeOutput(sInput)
    /\ spc' = "once"
    /\ UNCHANGED <<sInput, sOutput2>>
    /\ UNCHANGED <<histVars, tabVars, uiVars, netVars, smpVars, cpuVars, cfgVars, loadVars, fmtVars>>

\* The sanitized text passed through sanitizeOutput once more.
SanitizeAgain ==
    /\ spc = "once"
    /\ sOutput2' = sanitizeOutput(sOutput)
    /\ spc' = "twice"
    /\ UNCHANGED <<sInput, sOutput>>
    /\ UNCHANGED <<histVars, tabVars, uiVars, netVars, smpVars, cpuVars, cfgVars, loadVars, fmtVars>>

NextSanitize == Sanitize \/ SanitizeAgain

SpecSanitize == InitSanitize /\ [][NextSanitize]_vars

\* The control sequences of a text, each as <<first index, last index>>:
\* ESC [ parameters F, with F the final byte.
Sequences(s, final(_)) ==
    {ij \in (1..Len(s)) \X (1..Len(s)) :
        /\ ij[1] + 2 <= ij[2]
        /\ s[ij[1]] = 27
        /\ s[ij[1] + 1] = 91
        /\ \A k \in (ij[1] + 2)..(ij[2] - 1) : IsParam(s[k])
        /\ final(s[ij[2]])}

IsMovementFinal(b) == 64 <= b /\ b <= 126 /\ b # 109

SgrSequences(s) == Sequences(s, IsSgrFinal)

MovementSequences(s) == Sequences(s, IsMovementFinal)

Covered(s, seqs) == {p \in 1..Len(s) : \E ij \in seqs : ij[1] <= p /\ p <= ij[2]}

RECURSIVE Without(_, _, _)
Without(s, drop, i) ==
    IF i > Len(s) THEN <<>>
    ELSE (IF i \in drop THEN <<>> ELSE <<s[i]>>) \o Without(s, drop, i + 1)

\* C6: sanitizeOutput deletes exactly the bytes of the sequences ESC [
\* parameters F with F in @..~ other than m; every SGR sequence and all other
\* text is kept byte for byte and in order, and a text without ESC is
\* returned unchanged.
C6_RemovesExactlyMovementSequences ==
    spc \in {"once", "twice"} =>
        /\ sOutput = Without(sInput, Covered(sInput, MovementSequences(sInput)), 1)
        /\ Covered(sInput, SgrSequences(sInput))
                \cap Covered(sInput, MovementSequences(sInput)) = {}
        /\ (\A k \in 1..Len(sInput) : sInput[k] # 27) => sOutput = sInput

\* ESC [ H ESC [ m: the cursor move goes, the colour stays.
C6_Witness ==
    /\ spc = "once"
    /\ sInput = <<27, 91, 72, 27, 91, 109>>
    /\ sOutput = <<27, 91, 109>>

\* C7: the output of sanitizeOutput contains no control sequence other than
\* SGR, so that sanitizing it again changes nothing.
C7_OutputHasNoMovementSequence ==
    /\ spc \in {"once", "twice"} => MovementSequences(sOutput) = {}
    /\ spc = "twice" => sOutput2 = sOutput

(***************************************************************************)
(* History ring                                                            *)
(***************************************************************************)
HistoryLength == 30

\* Bounds of the history specification.
MaxUpdates == 32
MaxSparse == 1

\* A trim that keeps the oldest maxLen values instead of the newest.
trimHistoryKeepsHead(values, maxLen) ==
    IF Len(values) <= maxLen THEN values ELSE SubSeq(values, 1, maxLen)

\* values[len(values)-maxLen:] when the slice is longer than maxLen.
trimHistory(values, maxLen) ==
    IF Len(values) <= maxLen
    THEN values
    ELSE SubSeq(values, Len(values) - maxLen + 1, Len(values))

\* An update that appends the sample's field whatever its flag says.
UpdateHistoryZeroFill(history, sample) ==
    [Load |-> trimHistory(Append(history.Load, sample.Load), HistoryLength),
     CPU  |-> trimHistory(Append(history.CPU, sample.CPU), HistoryLength),
     Mem  |-> trimHistory(Append(history.Mem, sample.Mem), HistoryLength),
     Net  |-> trimHistory(Append(history.Net, sample.NetKB), HistoryLength)]

UpdateHistory(history, sample) ==
    [Load |-> IF sample.OkLoad
              THEN trimHistory(Append(history.Load, sample.Load), HistoryLength)
              ELSE history.Load,
     CPU  |-> IF sample.OkCPU
              THEN trimHistory(Append(history.CPU, sample.CPU), HistoryLength)
              ELSE history.CPU,
     Mem  |-> IF sample.OkMem
              THEN trimHistory(Append(history.Mem, sample.Mem), HistoryLength)
              ELSE history.Mem,
     Net  |-> IF sample.OkNet
              THEN trimHistory(Append(history.Net, sample.NetKB), HistoryLength)
              ELSE history.Net]

\* A sample as SampleMetrics builds it: a field is set only together with its
\* flag, the other fields keep the zero value.  The reading of the n-th call
\* is n, so that every appended value is distinct and non-zero.
MakeSample(okLoad, okCPU, okMem, okNet, v) ==
    [Load  |-> IF okLoad THEN v ELSE 0,
     CPU   |-> IF okCPU THEN v ELSE 0,
     Mem   |-> IF okMem THEN v ELSE 0,
     NetKB |-> IF okNet THEN v ELSE 0,
     OkLoad |-> okLoad, OkCPU |-> okCPU, OkMem |-> okMem, OkNet |-> okNet]

FullSample(s) == s.OkLoad /\ s.OkCPU /\ s.OkMem /\ s.OkNet

Log(log, sample) ==
    [Load |-> IF sample.OkLoad THEN Append(log.Load, sample.Load) ELSE log.Load,
     CPU  |-> IF sample.OkCPU THEN Append(log.CPU, sample.CPU) ELSE log.CPU,
     Mem  |-> IF sample.OkMem THEN Append(log.Mem, sample.Mem) ELSE log.Mem,
     Net  |-> IF sample.OkNet THEN Append(log.Net, sample.NetKB) ELSE log.Net]

InitHistory ==
    /\ SamplingIdle
    /\ CPUIdle
    /\ ConfigIdle
    /\ LoadIdle
    /\ FormatIdle
    /\ NetIdle
    /\ UIIdle
    /\ TabsIdle
    /\ SanitizeIdle
    /\ metrics = EmptyHistory
    /\ appended = EmptyHistory
    /\ hsample = ZeroSample
    /\ hprev = EmptyHistory
    /\ nUpdates = 0
    /\ nSparse = 0

\* Update, case metricsMsg: m.metrics = monitor.UpdateHistory(m.metrics, msg.metrics)
HandleMetricsFull ==
    /\ nUpdates < MaxUpdates
    /\ LET s == MakeSample(TRUE, TRUE, TRUE, TRUE, nUpdates + 1) IN
        /\ metrics' = UpdateHistory(metrics, s)
        /\ appended' = Log(appended, s)
        /\ hsample' = s
    /\ hprev' = metrics
    /\ nUpdates' = nUpdates + 1
    /\ UNCHANGED nSparse
    /\ UNCHANGED <<tabVars, sanVars, uiVars, netVars, smpVars, cpuVars, cfgVars, loadVars, fmtVars>>

HandleMetricsSparse ==
    /\ nUpdates < MaxUpdates
    /\ nSparse < MaxSparse
    /\ \E okLoad \in BOOLEAN, okCPU \in BOOLEAN, okMem \in BOOLEAN, okNet \in BOOLEAN :
        LET s == MakeSample(okLoad, okCPU, okMem, okNet, nUpdates + 1) IN
        /\ ~FullSample(s)
        /\ metrics' = UpdateHistory(metrics, s)
        /\ appended' = Log(appended, s)
        /\ hsample' = s
    /\ hprev' = metrics
    /\ nUpdates' = nUpdates + 1
    /\ nSparse' = nSparse + 1
    /\ UNCHANGED <<tabVars, sanVars, uiVars, netVars, smpVars, cpuVars, cfgVars, loadVars, fmtVars>>

NextHistory == HandleMetricsFull \/ HandleMetricsSparse

SpecHistory == InitHistory /\ [][NextHistory]_vars

LastReadings(log) ==
    LET k == Min(Len(log), HistoryLength) IN SubSeq(log, Len(log) - k + 1, Len(log))

\* C1: every channel holds exactly the last min(m, 30) of the m valid readings
\* appended to it, in append order; so its length is min(m, 30) <= 30, the
\* oldest readings are the dropped ones and the last element is the newest.
C1_HistoryIsTail ==
    /\ metrics.Load = LastReadings(appended.Load)
    /\ metrics.CPU = LastReadings(appended.CPU)
    /\ metrics.Mem = LastReadings(appended.Mem)
    /\ metrics.Net = LastReadings(appended.Net)
    /\ \A ch \in {metrics.Load, metrics.CPU, metrics.Mem, metrics.Net} :
            Len(ch) <= HistoryLength

\* A channel that received more than 30 readings and dropped the oldest.
C1_Witness ==
    /\ Len(appended.Load) > HistoryLength
    /\ Len(metrics.Load) = HistoryLength
    /\ metrics.Load[1] = appended.Load[Len(appended.Load) - HistoryLength + 1]
    /\ metrics.Load[HistoryLength] = nUpdates

\* One channel of the last UpdateHistory call: untouched when its flag is
\* false, otherwise the previous channel plus exactly the sampled value.
ChannelStep(before, after, ok, v) ==
    IF ok
    THEN /\ Len(after) = Min(Len(before) + 1, HistoryLength)
         /\ after[Len(after)] = v
         /\ \A i \in 1..(Len(after) - 1) :
                after[i] = before[Len(before) - (Len(after) - 1) + i]
    ELSE after = before

\* C2: UpdateHistory treats the four channels independently: a channel whose
\* flag is false is left exactly unchanged (nothing appended, nothing
\* trimmed), a channel whose flag is true grows by exactly the sampled value.
C2_ChannelsIndependent ==
    nUpdates > 0 =>
        /\ ChannelStep(hprev.Load, metrics.Load, hsample.OkLoad, hsample.Load)
        /\ ChannelStep(hprev.CPU, metrics.CPU, hsample.OkCPU, hsample.CPU)
        /\ ChannelStep(hprev.Mem, metrics.Mem, hsample.OkMem, hsample.Mem)
        /\ ChannelStep(hprev.Net, metrics.Net, hsample.OkNet, hsample.NetKB)

\* The last sample had a reading for Load only, and the channels differ in length.
C2_Witness ==
    /\ nUpdates > 1
    /\ hsample.OkLoad /\ ~hsample.OkCPU /\ ~hsample.OkMem /\ ~hsample.OkNet
    /\ Len(metrics.Load) = Len(metrics.CPU) + 1
    /\ metrics.CPU = hprev.CPU
    /\ Len(metrics.CPU) > 0

(***************************************************************************)
(* Dashboard model: Init, Update, onTabSelected, and the commands the      *)
(* runtime executes for them.  A command returned by Init or Update runs   *)
(* on its own and delivers its message to Update at some later time.       *)
(***************************************************************************)
\* Bounds of the dashboard specification.
MaxUITabs == 2
MaxRunning == 1

\* Tabs as config.Load returns them, after validateTab.
ValidatedTabs ==
    {[Title |-> "Uptime", Cmd |-> "uptime", Disabled |-> FALSE, DisabledMsg |-> ""],
     [Title |-> "Echo", Cmd |-> "echo", Disabled |-> FALSE, DisabledMsg |-> ""],
     [Title |-> "VM", Cmd |-> "vmstat", Disabled |-> TRUE,
      DisabledMsg |-> "Missing vmstat. Install procps/sysstat to enable this tab."]}

\* What a command prints when it prints something: out.String(), trimmed and sanitized.
OutputOf(t) == "output of " \o t.Cmd

\* len(theme.Themes), len(spinnerFrames)
NumThemes == 3
NumSpinnerFrames == 4

\* The cases of the switch on msg.String() in Update and in isQuitKey.
NextKeys == {"right", "l", "tab"}
PrevKeys == {"left", "h", "shift+tab"}
QuitKeys == {"q", "Q", "esc", "ctrl+c"}
ThemeKeys == {"t"}

\* Key messages (tea.KeyMsg): the type of the key, its runes, and whether Alt
\* was held.  Besides the keys Update names: j, and the quit keys with Alt.
KeyMsgs ==
    {[Type |-> "KeyRunes", Runes |-> <<r>>, Alt |-> FALSE] :
            r \in {"q", "Q", "l", "h", "t", "j"}}
        \cup {[Type |-> ty, Runes |-> << >>, Alt |-> FALSE] :
                ty \in {"KeyEsc", "KeyCtrlC", "KeyRight", "KeyLeft", "KeyTab",
                        "KeyShiftTab"}}
        \cup {[Type |-> "KeyRunes", Runes |-> <<r>>, Alt |-> TRUE] : r \in {"q", "Q"}}
        \cup {[Type |-> ty, Runes |-> << >>, Alt |-> TRUE] : ty \in {"KeyEsc", "KeyCtrlC"}}

\* msg.String(): the runes of a rune key, the name of any other key, with
\* "alt+" in front when Alt was held.
KeyString(k) ==
    LET name == CASE k.Type = "KeyRunes" -> k.Runes[1]
                  [] k.Type = "KeyEsc" -> "esc"
                  [] k.Type = "KeyCtrlC" -> "ctrl+c"
                  [] k.Type = "KeyRight" -> "right"
                  [] k.Type = "KeyLeft" -> "left"
                  [] k.Type = "KeyTab" -> "tab"
                  [] k.Type = "KeyShiftTab" -> "shift+tab"
    IN  IF k.Alt THEN "alt+" \o name ELSE name

\* A quit test that knows the lower-case q only.
isQuitKeyLowerCase(k) ==
    \/ k.Type = "KeyEsc"
    \/ k.Type = "KeyCtrlC"
    \/ k.Type = "KeyRunes" /\ Len(k.Runes) = 1 /\ k.Runes[1] \in {"q"}
    \/ KeyString(k) \in {"q", "esc", "ctrl+c"}

\* isQuitKey: by key type, by the single rune, or by msg.String().
isQuitKey(k) ==
    \/ k.Type = "KeyEsc"
    \/ k.Type = "KeyCtrlC"
    \/ k.Type = "KeyRunes" /\ Len(k.Runes) = 1 /\ k.Runes[1] \in {"q", "Q"}
    \/ KeyString(k) \in QuitKeys

\* A previous-tab key that stops at the first tab.
PrevTabNoWrap(a, n) == IF a - 1 < 0 THEN 0 ELSE a - 1

\* m.active--; if m.active < 0 { m.active = len(m.tabs) - 1 }
PrevTab(a, n) == IF a - 1 < 0 THEN n - 1 ELSE a - 1

\* m.active = (m.active + 1) % len(m.tabs)
NextTab(a, n) == (a + 1) % n

\* A theme key that goes back and forth between the first two themes.
CycleThemeOfTwo(i) == (i + 1) % 2

\* m.themeIndex = (m.themeIndex + 1) % len(theme.Themes)
CycleTheme(i) == (i + 1) % NumThemes

\* What a command leaves in its buffer, as a sequence of pieces: "space" for
\* white space, "clear" for a cursor or clear-screen sequence, or a text.
RawOutputs(t) ==
    {<< >>, <<"clear", "space">>, <<"clear", "space", "clear">>,
     <<"space", OutputOf(t), "clear">>}

\* msg.err, "" for nil: the command fails, or is killed when its four
\* seconds are over.
CmdErrors == {"", "signal: killed"}

RECURSIVE JoinPieces(_)
JoinPieces(ps) ==
    IF ps = << >> THEN ""
    ELSE (IF Head(ps) = "space" THEN " " ELSE Head(ps)) \o JoinPieces(Tail(ps))

\* A result handler without the "(no output)" placeholder.
resultContentAsIs(raw) ==
    LET text == {i \in DOMAIN raw : raw[i] # "space"}
        first == CHOOSE i \in text : \A j \in text : i <= j
        last == CHOOSE i \in text : \A j \in text : j <= i
        trimmed == IF text = {} THEN << >> ELSE SubSeq(raw, first, last)
    IN  JoinPieces(SelectSeq(trimmed, LAMBDA piece : piece # "clear"))

\* m.content = sanitizeOutput(strings.TrimSpace(msg.output)), "(no output)"
\* when that is empty.
resultContent(raw) ==
    LET text == {i \in DOMAIN raw : raw[i] # "space"}
        first == CHOOSE i \in text : \A j \in text : i <= j
        last == CHOOSE i \in text : \A j \in text : j <= i
        trimmed == IF text = {} THEN << >> ELSE SubSeq(raw, first, last)
        clean == JoinPieces(SelectSeq(trimmed, LAMBDA piece : piece # "clear"))
    IN  IF clean = "" THEN "(no output)" ELSE clean

\* fmt.Sprintf("error: %v", msg.err), or the "updated ..." line
resultStatus(err) == IF err # "" THEN "error: " \o err ELSE "updated"

RunningTotal(r) == SumTo(r, Cardinality(DOMAIN r) - 1)

\* The model a method with a value receiver works on, and hands back or drops.
ModelOf(c, v, st) == [content |-> c, viewport |-> v, statusLine |-> st]

\* func (m Model) onTabSelected() tea.Cmd: the command it returns, and the copy
\* of the model it assigned to.
onTabSelected(ts, a, m) ==
    IF ts[a].Disabled
    THEN [cmd |-> {},
          m |-> ModelOf(ts[a].DisabledMsg, ts[a].DisabledMsg, "disabled")]
    ELSE [cmd |-> {a},
          m |-> ModelOf("Loading...", "Loading...", m.statusLine)]

\* The model Update returns after a tab key: m.active is assigned in Update
\* itself; onTabSelected has a value receiver, so what it assigns stays in its
\* own copy of m and Update returns its m without those assignments.
AfterTabSelected(ts, a, m) == m

\* A tick that runs the active tab's command without looking at Disabled.
TickCommandAlways(ts, a) == {a}

\* case tickMsg: runCommandCmd(m.tabs[m.active]) unless the tab is disabled
TickCommand(ts, a) == IF ts[a].Disabled THEN {} ELSE {a}

\* Init: the same choice for the first command.
InitCommand(ts, a) == IF ts[a].Disabled THEN {} ELSE {a}

Launch(r, cmd) == [i \in DOMAIN r |-> IF i \in cmd THEN r[i] + 1 ELSE r[i]]

\* NewModel(): the viewport starts with "Loading...", m.content is empty.
NewModel ==
    /\ active = 0
    /\ content = ""
    /\ viewport = "Loading..."
    /\ statusLine = ""
    /\ themeIndex = 0
    /\ spinnerIdx = 0
    /\ running = [i \in DOMAIN tabs |-> 0]
    /\ ticksPending = 0
    /\ spinnersPending = 0
    /\ lastMsg = NoMsg
    /\ launched = {}
    /\ sampling = {}
    /\ system = NoSystem
    /\ size = NoSize
    /\ upc = "new"

\* The dashboard with any list of up to MaxUITabs validated tabs.
InitUI ==
    /\ SamplingIdle
    /\ CPUIdle
    /\ ConfigIdle
    /\ LoadIdle
    /\ FormatIdle
    /\ NetIdle
    /\ HistoryIdle
    /\ TabsIdle
    /\ SanitizeIdle
    /\ \E n \in 1..MaxUITabs : tabs \in [0..(n - 1) -> ValidatedTabs]
    /\ NewModel

\* func (m Model) Init() tea.Cmd: value receiver, the model is not returned.
ModelInit ==
    /\ upc = "new"
    /\ launched' = InitCommand(tabs, active)
    /\ running' = Launch(running, InitCommand(tabs, active))
    /\ ticksPending' = ticksPending + 1
    /\ spinnersPending' = spinnersPending + 1
    /\ upc' = "running"
    /\ UNCHANGED <<tabs, active, content, viewport, statusLine, themeIndex,
                   spinnerIdx, lastMsg>>
    /\ sampling' = sampling \cup Samplers
    /\ UNCHANGED <<system, size>>
    /\ UNCHANGED <<histVars, tabVars, sanVars, netVars, smpVars, cpuVars, cfgVars, loadVars, fmtVars>>

\* case tea.KeyMsg, quit keys: return m, tea.Quit
KeyQuit ==
    /\ upc = "running"
    /\ \E k \in KeyMsgs :
        /\ isQuitKey(k) \/ KeyString(k) = "ctrl+c"
        /\ lastMsg' = [type |-> "key", key |-> KeyString(k), err |-> ""]
    /\ launched' = {}
    /\ upc' = "quit"
    /\ UNCHANGED <<tabs, active, content, viewport, statusLine, themeIndex,
                   spinnerIdx, running, ticksPending, spinnersPending>>
    /\ UNCHANGED <<sampling, system, size>>
    /\ UNCHANGED <<histVars, tabVars, sanVars, netVars, smpVars, cpuVars, cfgVars, loadVars, fmtVars>>

\* case "right", "l", "tab" and case "left", "h", "shift+tab"
KeyTab ==
    /\ upc = "running"
    /\ \E msg \in KeyMsgs :
        LET k == KeyString(msg)
            a == IF k \in NextKeys
                 THEN NextTab(active, Cardinality(DOMAIN tabs))
                 ELSE PrevTab(active, Cardinality(DOMAIN tabs))
            sel == onTabSelected(tabs, a, ModelOf(content, viewport, statusLine))
            m == AfterTabSelected(tabs, a, ModelOf(content, viewport, statusLine))
        IN /\ ~isQuitKey(msg)
           /\ k \in NextKeys \cup PrevKeys
           /\ RunningTotal(running) + Cardinality(sel.cmd) <= MaxRunning
           /\ active' = a
           /\ content' = m.content
           /\ viewport' = m.viewport
           /\ statusLine' = m.statusLine
           /\ launched' = sel.cmd
           /\ running' = Launch(running, sel.cmd)
           /\ lastMsg' = [type |-> "key", key |-> k, err |-> ""]
    /\ UNCHANGED <<tabs, themeIndex, spinnerIdx, ticksPending, spinnersPending, upc>>
    /\ UNCHANGED <<sampling, system, size>>
    /\ UNCHANGED <<histVars, tabVars, sanVars, netVars, smpVars, cpuVars, cfgVars, loadVars, fmtVars>>

\* case "t"
KeyTheme ==
    /\ upc = "running"
    /\ \E k \in KeyMsgs :
        /\ ~isQuitKey(k)
        /\ KeyString(k) \in ThemeKeys
        /\ lastMsg' = [type |-> "key", key |-> KeyString(k), err |-> ""]
    /\ themeIndex' = CycleTheme(themeIndex)
    /\ launched' = {}
    /\ UNCHANGED <<tabs, active, content, viewport, statusLine, spinnerIdx,
                   running, ticksPending, spinnersPending, upc>>
    /\ UNCHANGED <<sampling, system, size>>
    /\ UNCHANGED <<histVars, tabVars, sanVars, netVars, smpVars, cpuVars, cfgVars, loadVars, fmtVars>>

\* any other key: falls through to m.viewport.Update(msg)
KeyOther ==
    /\ upc = "running"
    /\ \E k \in KeyMsgs :
        /\ ~isQuitKey(k)
        /\ KeyString(k) \notin NextKeys \cup PrevKeys \cup ThemeKeys \cup {"ctrl+c"}
        /\ lastMsg' = [type |-> "key", key |-> KeyString(k), err |-> ""]
    /\ launched' = {}
    /\ UNCHANGED <<tabs, active, content, viewport, statusLine, themeIndex,
                   spinnerIdx, running, ticksPending, spinnersPending, upc>>
    /\ UNCHANGED <<sampling, system, size>>
    /\ UNCHANGED <<histVars, tabVars, sanVars, netVars, smpVars, cpuVars, cfgVars, loadVars, fmtVars>>

\* A tick handler that arms the next tick only when it runs a command.
tickArmedWithCommand(ts, a) == IF ts[a].Disabled THEN 0 ELSE 1

\* case tickMsg: the tick timers its batch arms, one in either branch.
tickArmed(ts, a) == IF ts[a].Disabled THEN 1 ELSE 1

\* case tickMsg
Tick ==
    /\ upc = "running"
    /\ ticksPending > 0
    /\ LET cmd == TickCommand(tabs, active) IN
        /\ RunningTotal(running) + Cardinality(cmd) <= MaxRunning
        /\ launched' = cmd
        /\ running' = Launch(running, cmd)
    /\ ticksPending' = (ticksPending - 1) + tickArmed(tabs, active)
    /\ lastMsg' = [type |-> "tick", key |-> "", err |-> ""]
    /\ UNCHANGED <<tabs, active, content, viewport, statusLine, themeIndex,
                   spinnerIdx, spinnersPending, upc>>
    /\ sampling' = sampling \cup Samplers
    /\ UNCHANGED <<system, size>>
    /\ UNCHANGED <<histVars, tabVars, sanVars, netVars, smpVars, cpuVars, cfgVars, loadVars, fmtVars>>

\* A spinner that cycles through one frame more than there are.
nextFrameOfFive(i) == (i + 1) % (NumSpinnerFrames + 1)

\* m.spinnerIdx = (m.spinnerIdx + 1) % len(spinnerFrames)
nextFrame(i) == (i + 1) % NumSpinnerFrames

\* case spinnerMsg
Spinner ==
    /\ upc = "running"
    /\ spinnersPending > 0
    /\ spinnerIdx' = nextFrame(spinnerIdx)
    /\ spinnersPending' = (spinnersPending - 1) + 1
    /\ launched' = {}
    /\ lastMsg' = [type |-> "spinner", key |-> "", err |-> ""]
    /\ UNCHANGED <<tabs, active, content, viewport, statusLine, themeIndex,
                   running, ticksPending, upc>>
    /\ UNCHANGED <<sampling, system, size>>
    /\ UNCHANGED <<histVars, tabVars, sanVars, netVars, smpVars, cpuVars, cfgVars, loadVars, fmtVars>>

\* A running command finishes (or is killed after 4 seconds) and its
\* cmdResultMsg is handled: case cmdResultMsg.
CmdResult ==
    /\ upc = "running"
    /\ \E i \in DOMAIN running : \E raw \in RawOutputs(tabs[i]), err \in CmdErrors :
        /\ running[i] > 0
        /\ running' = [running EXCEPT ![i] = running[i] - 1]
        /\ content' = resultContent(raw)
        /\ viewport' = content'
        /\ statusLine' = resultStatus(err)
        /\ lastMsg' = [type |-> "result", key |-> "", err |-> err]
    /\ launched' = {}
    /\ UNCHANGED <<tabs, active, themeIndex, spinnerIdx, ticksPending,
                   spinnersPending, upc>>
    /\ UNCHANGED <<sampling, system, size>>
    /\ UNCHANGED <<histVars, tabVars, sanVars, netVars, smpVars, cpuVars, cfgVars, loadVars, fmtVars>>

\* The size the terminal reports: wide enough, and lower than the rows the
\* dashboard keeps for itself.
WindowSizes == {[Width |-> 80, Height |-> 8]}

\* What monitor.SampleSystem reports: the uptime always, disk and network
\* when their tools answer.
SystemInfos == {[Uptime |-> "UPTIME: 3d", Disk |-> "", Net |-> "NET: eth0 12KB/s"]}

\* What monitor.SampleMetrics reports here: a sample in which no source gave
\* a reading (the histories, and samples with readings, are the subject of
\* SpecHistory).
UISamples == {ZeroSample}

fixedRows == 9

clampMin(value, min) == IF value < min THEN min ELSE value

\* case tea.WindowSizeMsg
WindowSize ==
    /\ upc = "running"
    /\ \E msg \in WindowSizes :
        size' = [width |-> msg.Width,
                 height |-> msg.Height,
                 vpWidth |-> clampMin(msg.Width - 2, 0),
                 vpHeight |-> clampMin(msg.Height - fixedRows, 0)]
    /\ viewport' = content
    /\ launched' = {}
    /\ lastMsg' = [type |-> "size", key |-> "", err |-> ""]
    /\ UNCHANGED <<tabs, active, content, statusLine, themeIndex, spinnerIdx,
                   running, ticksPending, spinnersPending, sampling, system, upc>>
    /\ UNCHANGED <<histVars, tabVars, sanVars, netVars, smpVars, cpuVars, cfgVars, loadVars, fmtVars>>

\* sampleMetricsCmd finishes and its metricsMsg is handled: case metricsMsg
MetricsMsg ==
    /\ upc = "running"
    /\ "metrics" \in sampling
    /\ sampling' = sampling \ {"metrics"}
    /\ \E sample \in UISamples : metrics' = UpdateHistory(metrics, sample)
    /\ launched' = {}
    /\ lastMsg' = [type |-> "metrics", key |-> "", err |-> ""]
    /\ UNCHANGED <<tabs, active, content, viewport, statusLine, themeIndex,
                   spinnerIdx, running, ticksPending, spinnersPending, system,
                   size, upc>>
    /\ UNCHANGED <<appended, hsample, hprev, nUpdates, nSparse>>
    /\ UNCHANGED <<tabVars, sanVars, netVars, smpVars, cpuVars, cfgVars, loadVars, fmtVars>>

\* sampleSystemCmd finishes and its systemMsg is handled: case systemMsg
SystemMsg ==
    /\ upc = "running"
    /\ "system" \in sampling
    /\ sampling' = sampling \ {"system"}
    /\ \E info \in SystemInfos : system' = info
    /\ launched' = {}
    /\ lastMsg' = [type |-> "system", key |-> "", err |-> ""]
    /\ UNCHANGED <<tabs, active, content, viewport, statusLine, themeIndex,
                   spinnerIdx, running, ticksPending, spinnersPending, size, upc>>
    /\ UNCHANGED <<histVars, tabVars, sanVars, netVars, smpVars, cpuVars, cfgVars, loadVars, fmtVars>>

NextUI ==
    \/ ModelInit
    \/ KeyQuit
    \/ KeyTab
    \/ KeyTheme
    \/ KeyOther
    \/ Tick
    \/ Spinner
    \/ CmdResult
    \/ WindowSize
    \/ MetricsMsg
    \/ SystemMsg

SpecUI == InitUI /\ [][NextUI]_vars

\* The dashboard with three tabs, the middle one disabled.
InitNav ==
    /\ SamplingIdle
    /\ CPUIdle
    /\ ConfigIdle
    /\ LoadIdle
    /\ FormatIdle
    /\ NetIdle
    /\ HistoryIdle
    /\ TabsIdle
    /\ SanitizeIdle
    /\ tabs \in {ts \in [{0, 1, 2} -> ValidatedTabs] :
                    /\ ts[0].Title = "Uptime"
                    /\ ts[1].Title = "VM"
                    /\ ts[2].Title = "Echo"}
    /\ NewModel

SpecNav == InitNav /\ [][NextUI]_vars

\* The dashboard with an enabled and a disabled tab, in either order.
InitPair ==
    /\ SamplingIdle
    /\ CPUIdle
    /\ ConfigIdle
    /\ LoadIdle
    /\ FormatIdle
    /\ NetIdle
    /\ HistoryIdle
    /\ TabsIdle
    /\ SanitizeIdle
    /\ tabs \in {ts \in [{0, 1} -> ValidatedTabs] :
                    {ts[0].Title, ts[1].Title} = {"Uptime", "VM"}}
    /\ NewModel

SpecPair == InitPair /\ [][NextUI]_vars

\* The dashboard with two tabs, the second one disabled.
InitLoop ==
    /\ SamplingIdle
    /\ CPUIdle
    /\ ConfigIdle
    /\ LoadIdle
    /\ FormatIdle
    /\ NetIdle
    /\ HistoryIdle
    /\ TabsIdle
    /\ SanitizeIdle
    /\ tabs \in {ts \in [{0, 1} -> ValidatedTabs] :
                    ts[0].Title = "Uptime" /\ ts[1].Title = "VM"}
    /\ NewModel

\* The runtime calls Init once; a timer that is armed fires and its message
\* is handled, whatever else goes on (the guard of Tick on the commands in
\* flight is a bound of this model, so its fairness is strong); a command
\* that runs ends, at the latest when its timeout kills it, and its message
\* is handled.
FairSpecLoop ==
    /\ InitLoop
    /\ [][NextUI]_vars
    /\ WF_vars(ModelInit)
    /\ SF_vars(Tick)
    /\ WF_vars(Spinner)
    /\ WF_vars(CmdResult)

\* C8: a command is launched only for a tab that is not disabled: no command
\* of a disabled tab is ever in flight, a tick while the active tab is
\* disabled launches none, and selecting a disabled tab launches none.
C8_NoCommandForDisabledTab ==
    /\ \A i \in DOMAIN running : running[i] > 0 => ~tabs[i].Disabled
    /\ \A i \in launched : ~tabs[i].Disabled
    /\ (upc = "running" /\ tabs[active].Disabled
            /\ (lastMsg.type = "tick" \/ lastMsg.key \in NextKeys \cup PrevKeys))
        => launched = {}

\* A tick was handled while a disabled tab was active, next to an enabled
\* tab whose command is still running.
C8_Witness ==
    /\ upc = "running"
    /\ lastMsg.type = "tick"
    /\ tabs[active].Disabled
    /\ launched = {}
    /\ \E i \in DOMAIN running : running[i] > 0

\* C9: after a next/previous-tab key that makes a disabled tab active, the
\* model returned by Update has that tab's hint as its content and
\* "disabled" as its status line.
C9_DisabledTabShowsHint ==
    (upc = "running" /\ lastMsg.key \in NextKeys \cup PrevKeys
        /\ tabs[active].Disabled)
    => /\ content = tabs[active].DisabledMsg
       /\ viewport = tabs[active].DisabledMsg
       /\ statusLine = "disabled"

\* C16: a next-tab key sets active to (active + 1) mod len(tabs) and a
\* previous-tab key to (active - 1) mod len(tabs): next from the last tab
\* goes to tab 0, previous from tab 0 to the last tab, and each undoes the
\* other.
C16_NavigationWraps ==
    [][LET n == Cardinality(DOMAIN tabs)
       IN  /\ (lastMsg'.type = "key" /\ lastMsg'.key \in NextKeys)
                => /\ active' = (active + 1) % n
                   /\ active = n - 1 => active' = 0
                   /\ (active' - 1) % n = active
           /\ (lastMsg'.type = "key" /\ lastMsg'.key \in PrevKeys)
                => /\ active' = (active - 1) % n
                   /\ active = 0 => active' = n - 1
                   /\ (active' + 1) % n = active]_vars

\* A previous-tab key has just led to the last of three tabs, which it does
\* from tab 0 only.
C16_Witness ==
    /\ upc = "running"
    /\ Cardinality(DOMAIN tabs) = 3
    /\ lastMsg.type = "key"
    /\ lastMsg.key \in PrevKeys
    /\ active = 2

\* C17: `t` changes the theme index to (themeIndex + 1) mod the number of
\* themes: the index differs from the one before, is a valid index of the
\* theme list, and is back where it was after as many presses as there are
\* themes; the key changes neither the active tab, the tab list, the content
\* nor the histories.
C17_ThemeCycles ==
    [][(lastMsg'.type = "key" /\ lastMsg'.key = "t")
        => /\ themeIndex' = (themeIndex + 1) % NumThemes
           /\ themeIndex' # themeIndex
           /\ themeIndex' \in 0..(NumThemes - 1)
           /\ (themeIndex' + (NumThemes - 1)) % NumThemes = themeIndex
           /\ UNCHANGED <<active, tabs, content, viewport, metrics>>]_vars

\* `t` has brought the theme index back to the first theme.
C17_Witness ==
    /\ upc = "running"
    /\ lastMsg.type = "key"
    /\ lastMsg.key = "t"
    /\ themeIndex = 0
    /\ content # ""

\* C18 as claimed: q, Q, Esc and Ctrl+C make Update return the quit command,
\* and no other key or message does.
C18_OnlyTheFourKeysQuit ==
    /\ (lastMsg.type = "key" /\ lastMsg.key \in {"q", "Q", "esc", "ctrl+c"})
        => upc = "quit"
    /\ upc = "quit"
        => (lastMsg.type = "key" /\ lastMsg.key \in {"q", "Q", "esc", "ctrl+c"})

\* C18: each of q, Q, Esc and Ctrl+C, with or without Alt held, makes Update
\* return the quit command with the model unchanged, from every state; no
\* other key or message returns the quit command.
C18_QuitKeysWithOrWithoutAlt ==
    [][LET quitting == {"q", "Q", "esc", "ctrl+c",
                        "alt+q", "alt+Q", "alt+esc", "alt+ctrl+c"}
       IN  /\ (lastMsg'.type = "key" /\ lastMsg'.key \in quitting)
                => /\ upc' = "quit"
                   /\ launched' = {}
                   /\ UNCHANGED <<tabs, active, content, viewport, statusLine,
                                  themeIndex, spinnerIdx, running, metrics>>
           /\ upc' = "quit"
                => (lastMsg'.type = "key" /\ lastMsg'.key \in quitting)]_vars

\* Alt+q has ended the program while a disabled tab was active and a command
\* was still running.
C18_Witness ==
    /\ upc = "quit"
    /\ lastMsg.key = "alt+q"
    /\ tabs[active].Disabled
    /\ \E i \in DOMAIN running : running[i] > 0

C28_ResultBelongsToActiveTab ==
    (lastMsg.type = "result"
        /\ \E i \in DOMAIN tabs : content = OutputOf(tabs[i]))
    => content = OutputOf(tabs[active])

\* C29: from Init on exactly one refresh tick is pending: Init arms one,
\* the handling of a tick arms exactly one successor, whether the active tab
\* is enabled or disabled, and no key, window-size, result, metrics, system
\* or spinner message arms or drops one.  Every tick starts the metrics and
\* system samplers, and a tick with an enabled active tab starts that tab's
\* command again.  With a fair timer, ticks are handled again and again for
\* as long as the program is not quit.
C29_OneTickPendingForever ==
    /\ [](upc = "new" => ticksPending = 0)
    /\ [](upc # "new" => ticksPending = 1)
    /\ [][ModelInit => ticksPending' = ticksPending + 1]_vars
    /\ [][Tick => /\ ticksPending' = ticksPending
                  /\ sampling' = {"metrics", "system"}
                  /\ ~tabs[active].Disabled
                        => /\ launched' = {active}
                           /\ running'[active] = running[active] + 1
                  /\ tabs[active].Disabled
                        => (launched' = {} /\ running' = running)]_vars
    /\ [][lastMsg'.type \in {"key", "size", "result", "metrics", "system", "spinner"}
            => ticksPending' = ticksPending]_vars
    /\ []<>(lastMsg.type = "tick" \/ upc = "quit")

\* A tick was handled while the disabled tab was active, after keys, a
\* window size and a result had been handled: one tick is pending again.
C29_Witness ==
    /\ upc = "running"
    /\ lastMsg.type = "tick"
    /\ tabs[active].Disabled
    /\ size # NoSize
    /\ content \notin {"", "Loading..."}
    /\ ticksPending = 1
    /\ "metrics" \in sampling

\* C30: after any sequence of messages, 0 <= active < len(tabs) and
\* 0 <= spinnerIdx < 4, and no message changes the tab list (titles,
\* commands, disabled flags and hints), which is not empty: m.tabs[m.active]
\* in Init, Update and View and spinnerFrames[m.spinnerIdx] in View are
\* within range.
C30_IndicesInRange ==
    /\ [](upc # "idle"
            => /\ DOMAIN tabs = 0..(Cardinality(DOMAIN tabs) - 1)
               /\ Cardinality(DOMAIN tabs) > 0
               /\ 0 <= active /\ active < Cardinality(DOMAIN tabs)
               /\ 0 <= spinnerIdx /\ spinnerIdx < 4)
    /\ [][tabs' = tabs]_vars

\* The last tab was reached from the first with a previous-tab key while the
\* spinner showed its last frame, after a window size and a system sample
\* had been handled.
C30_Witness ==
    /\ upc = "running"
    /\ active = Cardinality(DOMAIN tabs) - 1
    /\ lastMsg.key \in PrevKeys
    /\ spinnerIdx = 3
    /\ size # NoSize
    /\ system # NoSystem

(***************************************************************************)
(* Network rate.  Time is counted in whole seconds since process start,    *)
(* starting at 1; the zero time.Time is 0.  A reported rate is kept as the *)
(* pair (delta, secs) and stands for float64(delta) / 1024.0 / secs KB/s.  *)
(***************************************************************************)
\* Bounds of the network rate specification.
MaxTotal == 3
MaxClock == 4
MaxNetCalls == 4

\* netPrevAt.IsZero()
NoBaseline(prevAt) == prevAt = 0

\* A sampler without the counter-reset branch.
CounterWentBackIgnored(total, prevTotal) == FALSE

\* total < netPrevTotal
CounterWentBack(total, prevTotal) == total < prevTotal

\* secs := now.Sub(netPrevAt).Seconds()
Elapsed(now, prevAt) == now - prevAt

\* A sampler without the secs <= 0 branch.
NetRateNoElapsedCheck(total, now, prevTotal, prevAt) ==
    IF NoBaseline(prevAt) THEN NoRate
    ELSE IF CounterWentBack(total, prevTotal) THEN NoRate
    ELSE [delta |-> total - prevTotal, secs |-> Elapsed(now, prevAt), ok |-> TRUE]

\* The value getNetRateKB returns once readNetBytes gave `total` at time `now`.
\* total - netPrevTotal is computed only when total >= netPrevTotal, so the
\* unsigned subtraction does not wrap.
NetRate(total, now, prevTotal, prevAt) ==
    IF NoBaseline(prevAt) THEN NoRate
    ELSE IF CounterWentBack(total, prevTotal) THEN NoRate
    ELSE IF Elapsed(now, prevAt) <= 0 THEN NoRate
    ELSE [delta |-> total - prevTotal, secs |-> Elapsed(now, prevAt), ok |-> TRUE]

\* Lines of /proc/net/dev.  iface is the text before the ':' ("" for a line
\* without one), nfields the number of fields after it, rx and tx the values
\* of fields 0 and 8, with -1 for a token strconv.ParseUint rejects.
HeaderLine == [iface |-> "", nfields |-> 0, rx |-> 0, tx |-> 0]

\* Interface lines: the loopback, a line with too few fields, a line with an
\* unparsable counter, and well-formed lines of an interface.
IfaceLines ==
    {[iface |-> "lo", nfields |-> 16, rx |-> 1, tx |-> 1],
     [iface |-> "eth0", nfields |-> 15, rx |-> 1, tx |-> 1],
     [iface |-> "eth0", nfields |-> 16, rx |-> 1, tx |-> -1]}
        \cup {[iface |-> "eth0", nfields |-> 16, rx |-> b, tx |-> 0] :
                b \in 0..MaxTotal}

\* The contents /proc/net/dev can have: a header and up to two interfaces.
ProcNetDev ==
    {<<HeaderLine>>}
        \cup {<<HeaderLine, a>> : a \in IfaceLines}
        \cup {<<HeaderLine, a, b>> :
                a \in {l \in IfaceLines : l.nfields = 16 /\ l.tx >= 0},
                b \in IfaceLines}

\* The lines the loop of sumNetBytesLinux does not skip: with a ':', not a
\* loopback (iface == "lo" || strings.HasPrefix(iface, "lo")), at least 16
\* fields, and two counters that parse.
Counted(line) ==
    /\ line.iface # ""
    /\ line.iface \notin {"lo", "lo0"}
    /\ line.nfields >= 16
    /\ line.rx >= 0
    /\ line.tx >= 0

RECURSIVE sumNetBytesLinux(_)
\* total += rx + tx and found = true for every counted line.
sumNetBytesLinux(data) ==
    IF data = << >> THEN [total |-> 0, ok |-> FALSE]
    ELSE LET rest == sumNetBytesLinux(Tail(data))
             line == Head(data)
         IN  IF Counted(line)
             THEN [total |-> line.rx + line.tx + rest.total, ok |-> TRUE]
             ELSE rest

\* The sources readNetBytes looks at: os.ReadFile("/proc/net/dev") (an error,
\* or the contents), and exec.LookPath("netstat") with, when found, what
\* sumNetBytesDarwin makes of `netstat -ib` (nothing, or a total).
NetSources ==
    LET procReads ==
            {[readable |-> FALSE, data |-> << >>]}
                \cup {[readable |-> TRUE, data |-> d] : d \in ProcNetDev}
        netstatRuns ==
            {[found |-> FALSE, darwin |-> [total |-> 0, ok |-> FALSE]],
             [found |-> TRUE, darwin |-> [total |-> 0, ok |-> FALSE]]}
                \cup {[found |-> TRUE, darwin |-> [total |-> t, ok |-> TRUE]] :
                        t \in 0..MaxTotal}
    IN  {[proc |-> p, netstat |-> n] : p \in procReads, n \in netstatRuns}

\* readNetBytes: /proc/net/dev first, then netstat, else (0, false).
readNetBytes(src) ==
    IF src.proc.readable /\ sumNetBytesLinux(src.proc.data).ok
    THEN sumNetBytesLinux(src.proc.data)
    ELSE IF src.netstat.found /\ src.netstat.darwin.ok THEN src.netstat.darwin
    ELSE [total |-> 0, ok |-> FALSE]

\* A sampler that forgets its baseline when no counter can be read.
getNetRateKBForgetsBaseline(read, now, prevTotal, prevAt) ==
    IF ~read.ok
    THEN [rate |-> NoRate, prevTotal |-> 0, prevAt |-> 0]
    ELSE [rate |-> NetRate(read.total, now, prevTotal, prevAt),
          prevTotal |-> read.total, prevAt |-> now]

\* getNetRateKB: the returned rate and the baseline it leaves behind.  A
\* failed read returns before the baseline is touched; after a successful
\* read every branch stores (total, now).
getNetRateKB(read, now, prevTotal, prevAt) ==
    IF ~read.ok
    THEN [rate |-> NoRate, prevTotal |-> prevTotal, prevAt |-> prevAt]
    ELSE [rate |-> NetRate(read.total, now, prevTotal, prevAt),
          prevTotal |-> read.total, prevAt |-> now]

InitNet ==
    /\ SamplingIdle
    /\ CPUIdle
    /\ ConfigIdle
    /\ LoadIdle
    /\ FormatIdle
    /\ HistoryIdle
    /\ TabsIdle
    /\ SanitizeIdle
    /\ UIIdle
    /\ netPrevTotal = 0
    /\ netPrevAt = 0
    /\ clock = 1
    /\ netRead = [total |-> 0, ok |-> FALSE]
    /\ netBefore = [total |-> 0, at |-> 0]
    /\ netCallAt = 0
    /\ netResult = NoRate
    /\ netCalls = 0

\* Time passes.
ClockTick ==
    /\ clock < MaxClock
    /\ clock' = clock + 1
    /\ UNCHANGED <<netPrevTotal, netPrevAt, netRead, netBefore, netCallAt,
                   netResult, netCalls>>
    /\ UNCHANGED <<histVars, tabVars, sanVars, uiVars, smpVars, cpuVars, cfgVars, loadVars, fmtVars>>

\* One call of getNetRateKB with the counters read from `src`.
Sample(src) ==
    LET read == readNetBytes(src)
        r == getNetRateKB(read, clock, netPrevTotal, netPrevAt)
    IN  /\ netRead' = read
        /\ netResult' = r.rate
        /\ netPrevTotal' = r.prevTotal
        /\ netPrevAt' = r.prevAt
        /\ netBefore' = [total |-> netPrevTotal, at |-> netPrevAt]
        /\ netCallAt' = clock
        /\ netCalls' = netCalls + 1
        /\ UNCHANGED clock
        /\ UNCHANGED <<histVars, tabVars, sanVars, uiVars, smpVars, cpuVars, cfgVars, loadVars, fmtVars>>

\* getNetRateKB when readNetBytes fails: return 0, false
GetNetRateNoData ==
    /\ netCalls < MaxNetCalls
    /\ \E src \in NetSources :
        /\ ~readNetBytes(src).ok
        /\ Sample(src)

\* getNetRateKB when readNetBytes returns a total: every branch stores
\* (total, now) as the new baseline.
GetNetRate ==
    /\ netCalls < MaxNetCalls
    /\ \E src \in NetSources :
        /\ readNetBytes(src).ok
        /\ Sample(src)

NextNet == ClockTick \/ GetNetRateNoData \/ GetNetRate

SpecNet == InitNet /\ [][NextNet]_vars

C12_NoDataKeepsBaseline ==
    (netCalls > 0 /\ ~netRead.ok)
        => /\ ~netResult.ok
           /\ netPrevTotal = netBefore.total
           /\ netPrevAt = netBefore.at

\* A failed read after a baseline had been stored.
C12_Witness ==
    /\ netCalls > 1
    /\ ~netRead.ok
    /\ ~netResult.ok
    /\ netBefore.at > 0
    /\ netBefore.total > 0
    /\ netPrevAt = netBefore.at
    /\ netPrevTotal = netBefore.total

(***************************************************************************)
(* The sampling commands of a refresh tick.  Update answers a tickMsg with *)
(* tea.Batch(..., sampleMetricsCmd(), sampleSystemCmd()); the runtime runs *)
(* every command of a batch in a goroutine of its own.  SampleMetrics and  *)
(* SampleSystem (through getNetSummary) both call getNetRateKB, whose      *)
(* baseline is a pair of package variables without a lock, so each         *)
(* statement of getNetRateKB that reads or writes them is a step of its    *)
(* own.  A negative delta stands for the wrapped uint64 2^64 + delta.      *)
(***************************************************************************)
\* Bound of the sampling specification.
MaxSampleTicks == 2

\* The positions inside getNetRateKB, from the return of readNetBytes to the
\* last assignment.
InGetNetRateKB == {"l426", "l431", "l436", "l442", "storeAt", "storeTotal"}

InitSampling ==
    /\ HistoryIdle
    /\ TabsIdle
    /\ SanitizeIdle
    /\ UIIdle
    /\ CPUIdle
    /\ ConfigIdle
    /\ LoadIdle
    /\ FormatIdle
    /\ netPrevTotal = 0
    /\ netPrevAt = 0
    /\ clock = 1
    /\ netRead = [total |-> 0, ok |-> FALSE]
    /\ netBefore = [total |-> 0, at |-> 0]
    /\ netCallAt = 0
    /\ netResult = NoRate
    /\ netCalls = 0
    /\ SamplingIdle

\* What a step of command p leaves alone.
SamplerFrame ==
    /\ UNCHANGED <<clock, netRead, netBefore, netCallAt, netResult, netCalls,
                   smpTicks>>
    /\ UNCHANGED <<histVars, tabVars, sanVars, uiVars, cpuVars, cfgVars, loadVars, fmtVars>>

\* Update(tickMsg): the batch starts both sampling commands.
SampleTick ==
    /\ smpTicks < MaxSampleTicks
    /\ \A p \in Samplers : smpPc[p] = "idle"
    /\ smpPc' = [p \in Samplers |-> "call"]
    /\ smpTicks' = smpTicks + 1
    /\ UNCHANGED <<smpLocal, netVars, loadVars, fmtVars>>
    /\ UNCHANGED <<histVars, tabVars, sanVars, uiVars, cpuVars, cfgVars, loadVars, fmtVars>>

\* total, ok := readNetBytes(); if !ok return 0, false; now := time.Now()
ReadBytes(p) ==
    /\ smpPc[p] = "call"
    /\ \E read \in {[total |-> 0, ok |-> FALSE]}
                    \cup {[total |-> t, ok |-> TRUE] : t \in 0..MaxTotal} :
        IF read.ok
        THEN /\ smpLocal' = [smpLocal EXCEPT ![p].total = read.total,
                                             ![p].now = clock]
             /\ smpPc' = [smpPc EXCEPT ![p] = "l426"]
        ELSE /\ smpLocal' = [smpLocal EXCEPT ![p].ret = NoRate]
             /\ smpPc' = [smpPc EXCEPT ![p] = "done"]
    /\ UNCHANGED <<netPrevTotal, netPrevAt>>
    /\ SamplerFrame

\* if netPrevAt.IsZero()
CheckBaseline(p) ==
    /\ smpPc[p] = "l426"
    /\ smpPc' = [smpPc EXCEPT ![p] = IF NoBaseline(netPrevAt) THEN "storeAt"
                                                              ELSE "l431"]
    /\ smpLocal' = [smpLocal EXCEPT ![p].ret = NoRate]
    /\ UNCHANGED <<netPrevTotal, netPrevAt>>
    /\ SamplerFrame

\* if total < netPrevTotal
CheckCounter(p) ==
    /\ smpPc[p] = "l431"
    /\ smpPc' = [smpPc EXCEPT ![p] =
                    IF CounterWentBack(smpLocal[p].total, netPrevTotal)
                    THEN "storeAt" ELSE "l436"]
    /\ UNCHANGED <<smpLocal, netPrevTotal, netPrevAt>>
    /\ SamplerFrame

\* secs := now.Sub(netPrevAt).Seconds(); if secs <= 0
ComputeSecs(p) ==
    /\ smpPc[p] = "l436"
    /\ LET secs == Elapsed(smpLocal[p].now, netPrevAt)
       IN  /\ smpLocal' = [smpLocal EXCEPT ![p].secs = secs]
           /\ smpPc' = [smpPc EXCEPT ![p] = IF secs <= 0 THEN "storeAt"
                                                         ELSE "l442"]
    /\ UNCHANGED <<netPrevTotal, netPrevAt>>
    /\ SamplerFrame

\* delta := total - netPrevTotal
ComputeDelta(p) ==
    /\ smpPc[p] = "l442"
    /\ LET delta == smpLocal[p].total - netPrevTotal
       IN  smpLocal' = [smpLocal EXCEPT
                ![p].delta = delta,
                ![p].ret = [delta |-> delta, secs |-> smpLocal[p].secs,
                            ok |-> TRUE]]
    /\ smpPc' = [smpPc EXCEPT ![p] = "storeAt"]
    /\ UNCHANGED <<netPrevTotal, netPrevAt>>
    /\ SamplerFrame

\* netPrevAt = now
StoreAt(p) ==
    /\ smpPc[p] = "storeAt"
    /\ netPrevAt' = smpLocal[p].now
    /\ smpPc' = [smpPc EXCEPT ![p] = "storeTotal"]
    /\ UNCHANGED <<smpLocal, netPrevTotal>>
    /\ SamplerFrame

\* netPrevTotal = total; return
StoreTotal(p) ==
    /\ smpPc[p] = "storeTotal"
    /\ netPrevTotal' = smpLocal[p].total
    /\ smpPc' = [smpPc EXCEPT ![p] = "done"]
    /\ UNCHANGED <<smpLocal, netPrevAt>>
    /\ SamplerFrame

\* The command returns its message (metricsMsg or systemMsg) to Update.
Deliver(p) ==
    /\ smpPc[p] = "done"
    /\ smpPc' = [smpPc EXCEPT ![p] = "idle"]
    /\ smpLocal' = [smpLocal EXCEPT ![p] = NoLocals]
    /\ UNCHANGED <<netPrevTotal, netPrevAt>>
    /\ SamplerFrame

NextSampling ==
    \/ SampleTick
    \/ ClockTick
    \/ \E p \in Samplers :
        \/ ReadBytes(p)
        \/ CheckBaseline(p)
        \/ CheckCounter(p)
        \/ ComputeSecs(p)
        \/ ComputeDelta(p)
        \/ StoreAt(p)
        \/ StoreTotal(p)
        \/ Deliver(p)

SpecSampling == InitSampling /\ [][NextSampling]_vars

\* C13: the read-modify-write of the baseline never interleaves: at no time
\* are two executions of getNetRateKB in progress on the shared baseline.
C13_OneGetNetRateKBAtATime ==
    Cardinality({p \in Samplers : smpPc[p] \in InGetNetRateKB}) <= 1

(***************************************************************************)
(* CPU usage.  The output of a tool is a sequence of lines, a line the     *)
(* sequence of its whitespace-separated fields (strings.Fields); a blank   *)
(* line is << >>.  A float64 is [kind, v]: a number (whole percentages     *)
(* only), NaN, or an infinity with v its sign.                             *)
(***************************************************************************)
\* Field texts and the float64 strconv.ParseFloat makes of them; any other
\* text is a syntax error.
FloatTokens ==
    ("97" :> [kind |-> "num", v |-> 97]) @@ ("150" :> [kind |-> "num", v |-> 150])
        @@ ("-5" :> [kind |-> "num", v |-> -5]) @@ ("0" :> [kind |-> "num", v |-> 0])
        @@ ("100" :> [kind |-> "num", v |-> 100]) @@ ("NaN" :> [kind |-> "nan", v |-> 0])
        @@ ("+Inf" :> [kind |-> "inf", v |-> 1]) @@ ("-Inf" :> [kind |-> "inf", v |-> -1])

\* parseFloat: strconv.ParseFloat(strings.TrimSpace(s), 64)
parseFloat(s) ==
    IF s \in DOMAIN FloatTokens
    THEN [f |-> FloatTokens[s], ok |-> TRUE]
    ELSE [f |-> [kind |-> "num", v |-> 0], ok |-> FALSE]

\* cpu := 100 - idle; if cpu < 0 { cpu = 0 }; if cpu > 100 { cpu = 100 }
\* Both comparisons are false for a NaN.
usageFromIdle(idle) ==
    LET cpu == CASE idle.kind = "num" -> [kind |-> "num", v |-> 100 - idle.v]
                 [] idle.kind = "inf" -> [kind |-> "inf", v |-> 0 - idle.v]
                 [] OTHER -> idle
        below == \/ cpu.kind = "num" /\ cpu.v < 0
                 \/ cpu.kind = "inf" /\ cpu.v < 0
        above == \/ cpu.kind = "num" /\ cpu.v > 100
                 \/ cpu.kind = "inf" /\ cpu.v > 0
    IN  IF below THEN [kind |-> "num", v |-> 0]
        ELSE IF above THEN [kind |-> "num", v |-> 100]
        ELSE cpu

NoUsage == [value |-> [kind |-> "num", v |-> 0], ok |-> FALSE]

RECURSIVE TrimSpaceLines(_)
\* strings.Split(strings.TrimSpace(out), "\n"): no blank line at either end;
\* an output of blank lines only is the single line "".
TrimSpaceLines(lines) ==
    IF lines = << >> THEN << << >> >>
    ELSE IF Head(lines) = << >> THEN TrimSpaceLines(Tail(lines))
    ELSE IF lines[Len(lines)] = << >>
         THEN TrimSpaceLines(SubSeq(lines, 1, Len(lines) - 1))
    ELSE lines

\* The loop of cpuFromVmstat: values is the last non-blank line, header the
\* non-blank line before it ("" when there is none).
LastTwoRows(lines) ==
    LET nonBlank == {i \in DOMAIN lines : lines[i] # << >>}
        vi == IF nonBlank = {} THEN 0
              ELSE CHOOSE i \in nonBlank : \A j \in nonBlank : j <= i
        before == {i \in nonBlank : i < vi}
        hi == IF before = {} THEN 0
              ELSE CHOOSE i \in before : \A j \in before : j <= i
    IN  [header |-> IF hi = 0 THEN << >> ELSE lines[hi],
         values |-> IF vi = 0 THEN << >> ELSE lines[vi]]

\* indexOf: the first position of target, counted from 1 here; 0 for -1.
indexOf(fields, target) ==
    IF \E i \in DOMAIN fields : fields[i] = target
    THEN CHOOSE i \in DOMAIN fields :
            /\ fields[i] = target
            /\ \A j \in DOMAIN fields : fields[j] = target => i <= j
    ELSE 0

\* cpuFromVmstat on one run of vmstat: [err, lines].
cpuFromVmstat(run) ==
    LET lines == TrimSpaceLines(run.lines)
        rows == LastTwoRows(lines)
        idx == indexOf(rows.header, "id")
    IN  IF run.err THEN NoUsage
        ELSE IF Len(lines) < 3 THEN NoUsage
        ELSE IF rows.header = << >> \/ rows.values = << >> THEN NoUsage
        ELSE IF Len(rows.header) # Len(rows.values) THEN NoUsage
        ELSE IF idx = 0 THEN NoUsage
        ELSE IF ~parseFloat(rows.values[idx]).ok THEN NoUsage
        ELSE [value |-> usageFromIdle(parseFloat(rows.values[idx]).f),
              ok |-> TRUE]

RECURSIVE mpstatFrom(_, _)
\* The loop of cpuFromMpstat from line i upwards: the first line with at least
\* five fields, "all" as its second and a last field that parses decides.
\* ("Linux" as first field is the strings.HasPrefix(line, "Linux") case.)
mpstatFrom(lines, i) ==
    IF i = 0 THEN NoUsage
    ELSE LET fields == lines[i]
         IN  IF fields = << >> \/ fields[1] = "Linux" THEN mpstatFrom(lines, i - 1)
             ELSE IF Len(fields) < 5 THEN mpstatFrom(lines, i - 1)
             ELSE IF fields[2] \notin {"all", "ALL"} THEN mpstatFrom(lines, i - 1)
             ELSE IF ~parseFloat(fields[Len(fields)]).ok
                  THEN mpstatFrom(lines, i - 1)
             ELSE [value |-> usageFromIdle(parseFloat(fields[Len(fields)]).f),
                   ok |-> TRUE]

\* cpuFromMpstat on one run of `mpstat 1 1`.
cpuFromMpstat(run) ==
    IF run.err THEN NoUsage
    ELSE mpstatFrom(TrimSpaceLines(run.lines), Len(TrimSpaceLines(run.lines)))

\* A sampler that asks mpstat before vmstat.
getCPUUsageMpstatFirst(env) ==
    LET vm == cpuFromVmstat(env.vmstat)
        mp == cpuFromMpstat(env.mpstat)
        ranMp == IF env.mpstat.found THEN <<"mpstat">> ELSE << >>
        ranVm == IF env.vmstat.found THEN <<"vmstat">> ELSE << >>
    IN  IF env.mpstat.found /\ mp.ok
        THEN [value |-> mp.value, ok |-> TRUE, consulted |-> ranMp]
        ELSE IF env.vmstat.found /\ vm.ok
        THEN [value |-> vm.value, ok |-> TRUE, consulted |-> ranMp \o ranVm]
        ELSE [value |-> NoUsage.value, ok |-> FALSE, consulted |-> ranMp \o ranVm]

\* getCPUUsage: vmstat when exec.LookPath finds it and its output parses,
\* else mpstat likewise, else (0, false).  consulted lists the tools run.
getCPUUsage(env) ==
    LET vm == cpuFromVmstat(env.vmstat)
        mp == cpuFromMpstat(env.mpstat)
        ranVm == IF env.vmstat.found THEN <<"vmstat">> ELSE << >>
        ranMp == IF env.mpstat.found THEN <<"mpstat">> ELSE << >>
    IN  IF env.vmstat.found /\ vm.ok
        THEN [value |-> vm.value, ok |-> TRUE, consulted |-> ranVm]
        ELSE IF env.mpstat.found /\ mp.ok
        THEN [value |-> mp.value, ok |-> TRUE, consulted |-> ranVm \o ranMp]
        ELSE [value |-> NoUsage.value, ok |-> FALSE, consulted |-> ranVm \o ranMp]

\* vmstat: not on the path, failing to run, or printing one of: the usual
\* three lines with some text in the id column; the same with a blank line
\* before the values; a values row one field short; a header without id;
\* only two lines; two lines padded with blank ones; nothing.
VmstatRuns ==
    LET banner == <<"procs", "cpu">>
        header == <<"us", "id", "wa">>
        valuesRow(tok) == <<"1", tok, "0">>
        outputs ==
            {<<banner, header, valuesRow(tok)>> : tok \in DOMAIN FloatTokens \cup {"x"}}
                \cup {<<banner, header, << >>, valuesRow("97")>>,
                      <<banner, header, <<"1", "97">> >>,
                      <<banner, <<"us", "sy", "wa">>, valuesRow("97")>>,
                      <<header, valuesRow("97")>>,
                      << << >>, header, valuesRow("97"), << >> >>,
                      << >>}
    IN  {[found |-> FALSE, err |-> FALSE, lines |-> << >>],
         [found |-> TRUE, err |-> TRUE, lines |-> << >>]}
            \cup {[found |-> TRUE, err |-> FALSE, lines |-> o] : o \in outputs}

\* mpstat: not on the path, failing to run, or printing one of: a report whose
\* Average line carries the idle text; one whose Average line does not parse
\* above a sample line that does; one with a short Average line; one without
\* an `all` line.
MpstatRuns ==
    LET banner == <<"Linux", "6.1">>
        header == <<"12:00:01", "CPU", "%usr", "%sys", "%idle">>
        sample(tok) == <<"12:00:02", "all", "1", "0", tok>>
        average(tok) == <<"Average:", "all", "1", "0", tok>>
        outputs ==
            {<<banner, << >>, header, sample(tok), average(tok)>> :
                    tok \in {"97", "150", "-5", "NaN"}}
                \cup {<<banner, << >>, header, sample("100"), average("x")>>,
                      <<banner, << >>, header, <<"Average:", "all", "97">> >>,
                      <<banner, << >>, header>>}
    IN  {[found |-> FALSE, err |-> FALSE, lines |-> << >>],
         [found |-> TRUE, err |-> TRUE, lines |-> << >>]}
            \cup {[found |-> TRUE, err |-> FALSE, lines |-> o] : o \in outputs}

InitCPU ==
    /\ HistoryIdle
    /\ TabsIdle
    /\ SanitizeIdle
    /\ UIIdle
    /\ NetIdle
    /\ SamplingIdle
    /\ ConfigIdle
    /\ LoadIdle
    /\ FormatIdle
    /\ cpuEnv \in [vmstat : VmstatRuns, mpstat : MpstatRuns]
    /\ cpuResult = NoCPU
    /\ cpuPc = "ready"

\* One call of getCPUUsage.
GetCPUUsage ==
    /\ cpuPc = "ready"
    /\ cpuResult' = getCPUUsage(cpuEnv)
    /\ cpuPc' = "done"
    /\ UNCHANGED cpuEnv
    /\ UNCHANGED <<histVars, tabVars, sanVars, uiVars, netVars, smpVars, cfgVars, loadVars, fmtVars>>

NextCPU == GetCPUUsage

SpecCPU == InitCPU /\ [][NextCPU]_vars

\* C14: CPU usage is clamp(100 - idle, 0, 100) for every idle value either
\* tool's output parses to, so a reported CPU value is always a number
\* within 0..100.
C14_UsageWithinZeroToHundred ==
    (cpuPc = "done" /\ cpuResult.ok)
        => /\ cpuResult.value.kind = "num"
           /\ cpuResult.value.v >= 0
           /\ cpuResult.value.v <= 100

\* Whether vmstat is on the path, runs and parses.
VmstatParses == cpuEnv.vmstat.found /\ cpuFromVmstat(cpuEnv.vmstat).ok

MpstatParses == cpuEnv.mpstat.found /\ cpuFromMpstat(cpuEnv.mpstat).ok

\* C15: the sampler returns vmstat's value whenever vmstat is present and
\* its output parses, whatever mpstat would give; it runs mpstat only when
\* vmstat is absent, fails to run or fails to parse, a header and a values
\* row of different lengths and a header without `id` being parse failures;
\* it returns ok=false exactly when every candidate fails.
C15_OrderedFallback ==
    cpuPc = "done"
        => LET rows == LastTwoRows(TrimSpaceLines(cpuEnv.vmstat.lines))
               badShape == \/ Len(rows.header) # Len(rows.values)
                           \/ \A i \in DOMAIN rows.header : rows.header[i] # "id"
           IN  /\ VmstatParses
                    => /\ cpuResult.ok
                       /\ cpuResult.value = cpuFromVmstat(cpuEnv.vmstat).value
                       /\ cpuResult.consulted = <<"vmstat">>
               /\ (\E i \in DOMAIN cpuResult.consulted :
                        cpuResult.consulted[i] = "mpstat")
                    => \/ ~cpuEnv.vmstat.found
                       \/ cpuEnv.vmstat.err
                       \/ ~cpuFromVmstat(cpuEnv.vmstat).ok
               /\ (cpuEnv.vmstat.found /\ badShape)
                    => /\ ~cpuFromVmstat(cpuEnv.vmstat).ok
                       /\ cpuResult.ok = MpstatParses
                       /\ MpstatParses
                            => cpuResult.value = cpuFromMpstat(cpuEnv.mpstat).value
               /\ ~cpuResult.ok <=> (~VmstatParses /\ ~MpstatParses)
               /\ ~cpuResult.ok => cpuResult.value = [kind |-> "num", v |-> 0]

\* vmstat printed a values row one field short of its header, and the value
\* returned is the one mpstat gave.
C15_Witness ==
    /\ cpuPc = "done"
    /\ cpuEnv.vmstat.found
    /\ ~cpuEnv.vmstat.err
    /\ cpuEnv.vmstat.lines = <<<<"procs", "cpu">>, <<"us", "id", "wa">>, <<"1", "97">> >>
    /\ cpuEnv.mpstat.found
    /\ cpuResult.ok
    /\ cpuResult.consulted = <<"vmstat", "mpstat">>
    /\ cpuResult.value = [kind |-> "num", v |-> 0]

(***************************************************************************)
(* Tab validation.  A tab is [Title, Cmd, Disabled, DisabledMsg] with Cmd  *)
(* the sequence of the words of its command.                               *)
(***************************************************************************)
\* missingHint: the hint for a command that is not installed.
missingHint(cmd, title) ==
    CASE cmd \in {"mpstat", "pidstat", "sar", "iostat"}
            -> "Missing " \o title \o ". Install sysstat to enable this tab."
      [] cmd = "vm_stat" -> "Missing vm_stat. This tab requires macOS."
      [] cmd = "vmstat" -> "Missing vmstat. Install procps/sysstat to enable this tab."
      [] cmd = "free" -> "Missing free. Install procps to enable this tab."
      [] cmd = "top" -> "Missing top. Install procps to enable this tab."
      [] cmd = "uptime" -> "Missing uptime. Install coreutils to enable this tab."
      [] OTHER -> "Missing " \o cmd \o ". Install the command to enable this tab."

\* A validation that looks echo up like any other command.
validateTabLooksUpEcho(t, found) ==
    IF Len(t.Cmd) = 0
    THEN [t EXCEPT !.Disabled = TRUE,
                   !.DisabledMsg = "No command configured for this tab."]
    ELSE IF found THEN t
    ELSE [t EXCEPT !.Disabled = TRUE,
                   !.DisabledMsg = missingHint(t.Cmd[1], t.Title)]

\* validateTab, with `found` what exec.LookPath says of the first word.
validateTab(t, found) ==
    IF Len(t.Cmd) = 0
    THEN [t EXCEPT !.Disabled = TRUE,
                   !.DisabledMsg = "No command configured for this tab."]
    ELSE IF t.Cmd[1] = "echo" THEN t
    ELSE IF found THEN t
    ELSE [t EXCEPT !.Disabled = TRUE,
                   !.DisabledMsg = missingHint(t.Cmd[1], t.Title)]

\* Tabs as the configuration file or the defaults give them: Disabled and
\* DisabledMsg are not read from the file (toml:"-").
ConfiguredTabs ==
    [Title : {"CPU", "sar -n DEV", "fetch (missing)"},
     Cmd : {<< >>, <<"echo", "No fetch tool found.">>, <<"mpstat", "-P", "ALL">>,
            <<"pidstat">>, <<"sar", "-n", "DEV">>, <<"iostat">>, <<"vm_stat">>,
            <<"vmstat">>, <<"free", "-m">>, <<"top", "-b", "-n", "1">>,
            <<"uptime">>, <<"htop">>},
     Disabled : {FALSE},
     DisabledMsg : {""}]

InitConfig ==
    /\ HistoryIdle
    /\ TabsIdle
    /\ SanitizeIdle
    /\ UIIdle
    /\ NetIdle
    /\ SamplingIdle
    /\ CPUIdle
    /\ LoadIdle
    /\ FormatIdle
    /\ cfgTab \in ConfiguredTabs
    /\ cfgFound \in BOOLEAN
    /\ cfgResult = << >>
    /\ cfgPc = "ready"

\* One call of validateTab.
ValidateTab ==
    /\ cfgPc = "ready"
    /\ cfgResult' = validateTab(cfgTab, cfgFound)
    /\ cfgPc' = "done"
    /\ UNCHANGED <<cfgTab, cfgFound>>
    /\ UNCHANGED <<histVars, tabVars, sanVars, uiVars, netVars, smpVars, cpuVars, loadVars, fmtVars>>

NextConfig == ValidateTab

SpecConfig == InitConfig /\ [][NextConfig]_vars

\* C19: validation yields a tab that is disabled exactly when its command
\* list is empty or its first word is not echo and is not found on the path;
\* a disabled tab carries a non-empty hint chosen by the missing tool (the
\* sysstat tools, vm_stat, vmstat, free, top, uptime, any other), an enabled
\* tab an empty one; title and command are those of the tab given.
C19_ValidationIsConsistent ==
    cfgPc = "done"
        => LET t == cfgTab
               r == cfgResult
               tool == IF Len(t.Cmd) = 0 THEN "" ELSE t.Cmd[1]
               named == {"vm_stat", "vmstat", "free", "top", "uptime"}
           IN  /\ r.Disabled <=> (Len(t.Cmd) = 0 \/ (tool # "echo" /\ ~cfgFound))
               /\ r.Disabled => r.DisabledMsg # ""
               /\ ~r.Disabled => r.DisabledMsg = ""
               /\ (r.Disabled /\ tool \in {"mpstat", "pidstat", "sar", "iostat"})
                    => r.DisabledMsg = "Missing " \o t.Title
                                        \o ". Install sysstat to enable this tab."
               /\ (r.Disabled /\ tool \in named)
                    => \E advice \in {". This tab requires macOS.",
                                      ". Install procps/sysstat to enable this tab.",
                                      ". Install procps to enable this tab.",
                                      ". Install coreutils to enable this tab."} :
                          r.DisabledMsg = "Missing " \o tool \o advice
               /\ (r.Disabled /\ tool = "htop")
                    => r.DisabledMsg
                        = "Missing htop. Install the command to enable this tab."
               /\ r.Title = t.Title
               /\ r.Cmd = t.Cmd

\* A sysstat tool that is not installed: the tab comes back disabled with the
\* sysstat hint under its title.
C19_Witness ==
    /\ cfgPc = "done"
    /\ cfgTab.Cmd = <<"sar", "-n", "DEV">>
    /\ cfgTab.Title = "sar -n DEV"
    /\ ~cfgFound
    /\ cfgResult.Disabled
    /\ cfgResult.DisabledMsg = "Missing sar -n DEV. Install sysstat to enable this tab."

(***************************************************************************)
(* Loading the tabs.  config.Load reads the first configuration file that  *)
(* qualifies and falls back to the built-in tabs.  A file at a path is     *)
(* [readable, parses, cfg]: whether os.ReadFile succeeds, whether          *)
(* toml.Decode succeeds, and the Config decoded, [Tabs,                    *)
(* GlobalRefreshInterval].  Durations are whole seconds, 0 when the key is *)
(* absent from the file.                                                   *)
(***************************************************************************)

\* 5 * time.Second, the refresh interval used when none is configured.
DefaultInterval == 5

FileTab(title, cmd, interval) ==
    [Title |-> title, Cmd |-> cmd, RefreshInterval |-> interval,
     Disabled |-> FALSE, DisabledMsg |-> ""]

\* Config{}.
ZeroConfig == [Tabs |-> << >>, GlobalRefreshInterval |-> 0]

\* What may lie at one path: nothing, text that is not TOML, a file without
\* tabs, a file whose tabs all lack a title or a command, and three files
\* with usable tabs.
ConfigFiles ==
    LET file(ts, g) == [readable |-> TRUE, parses |-> TRUE,
                        cfg |-> [Tabs |-> ts, GlobalRefreshInterval |-> g]]
    IN  { [readable |-> FALSE, parses |-> FALSE, cfg |-> ZeroConfig],
          [readable |-> TRUE, parses |-> FALSE, cfg |-> ZeroConfig],
          file(<< >>, 9),
          file(<<FileTab("", <<"uptime">>, 4), FileTab("mem", << >>, 4)>>, 9),
          file(<<FileTab("", <<"vmstat">>, 1), FileTab("load", <<"uptime">>, 0),
                 FileTab("mem", << >>, 3), FileTab("cpu", <<"mpstat", "-P", "ALL">>, 1)>>, 2),
          file(<<FileTab("disk", <<"iostat">>, -1), FileTab("greet", <<"echo", "hi">>, 3)>>, 0),
          file(<<FileTab("net", <<"sar", "-n", "DEV">>, 0)>>, -3) }

\* The three places a configuration file is looked for.
EnvPath == "$PERFMON_CONFIG"
UserPath == "<UserConfigDir>/perfmon/config.toml"
LocalPath == "perfmon.toml"

\* A search order that tries perfmon.toml before the other two.
configPathsLocalFirst(env) ==
    <<LocalPath>>
        \o (IF env.envSet THEN <<EnvPath>> ELSE << >>)
        \o (IF env.userDirOk THEN <<UserPath>> ELSE << >>)

configPaths(env) ==
    (IF env.envSet THEN <<EnvPath>> ELSE << >>)
        \o (IF env.userDirOk THEN <<UserPath>> ELSE << >>)
        \o <<LocalPath>>

\* A filter that asks for a command only.
isValidTabCmdOnly(t) == Len(t.Cmd) > 0

\* The filter of loadFromConfig.
isValidTab(t) == t.Title # "" /\ Len(t.Cmd) > 0

RECURSIVE scanPaths(_, _)
scanPaths(paths, files) ==
    IF paths = << >> THEN [cfg |-> ZeroConfig, ok |-> FALSE]
    ELSE LET f == files[Head(paths)]
             validTabs == SelectSeq(f.cfg.Tabs, isValidTab)
         IN  IF ~f.readable THEN scanPaths(Tail(paths), files)
             ELSE IF ~f.parses THEN scanPaths(Tail(paths), files)
             ELSE IF Len(f.cfg.Tabs) = 0 THEN scanPaths(Tail(paths), files)
             ELSE IF Len(validTabs) > 0
                  THEN [cfg |-> [f.cfg EXCEPT !.Tabs = validTabs], ok |-> TRUE]
                  ELSE scanPaths(Tail(paths), files)

loadFromConfig(env) == scanPaths(configPaths(env), env.files)

\* exec.LookPath of a tool.
LookPath(env, tool) == tool \in env.installed

detectFetchCmd(env) ==
    IF LookPath(env, "fastfetch") THEN [title |-> "fastfetch", cmd |-> <<"fastfetch">>]
    ELSE IF LookPath(env, "neofetch") THEN [title |-> "neofetch", cmd |-> <<"neofetch">>]
    ELSE IF LookPath(env, "screenfetch")
         THEN [title |-> "screenfetch", cmd |-> <<"screenfetch">>]
    ELSE [title |-> "fetch (missing)",
          cmd |-> <<"echo", "No fetch tool found. Install fastfetch to enable this tab.">>]

\* validateTab as Load calls it, the path looked up in the environment.
validateTabIn(env, t) ==
    validateTab(t, Len(t.Cmd) > 0 /\ LookPath(env, t.Cmd[1]))

buildDefaultTabs(env) ==
    LET freeCmd == IF env.darwin THEN <<"vm_stat">> ELSE <<"free", "-m">>
        freeTitle == IF env.darwin THEN "vm_stat (free)" ELSE "free -m"
        topCmd == IF env.darwin THEN <<"top", "-l", "1">> ELSE <<"top", "-b", "-n", "1">>
        topTitle == IF env.darwin THEN "top -l 1" ELSE "top -b -n 1"
        fetch == detectFetchCmd(env)
        defaultInterval == DefaultInterval
        ts == << FileTab("uptime", <<"uptime">>, defaultInterval),
                 FileTab("vmstat", <<"vmstat">>, defaultInterval),
                 FileTab("mpstat -P ALL", <<"mpstat", "-P", "ALL">>, defaultInterval),
                 FileTab("pidstat -p ALL", <<"pidstat", "-p", "ALL">>, defaultInterval),
                 FileTab("iostat", <<"iostat">>, defaultInterval),
                 FileTab(freeTitle, freeCmd, defaultInterval),
                 FileTab("sar -n DEV", <<"sar", "-n", "DEV">>, defaultInterval),
                 FileTab("sar -n TCP,ETCP", <<"sar", "-n", "TCP,ETCP">>, defaultInterval),
                 FileTab(topTitle, topCmd, defaultInterval),
                 FileTab(fetch.title, fetch.cmd, defaultInterval) >>
    IN  [i \in 1..Len(ts) |-> validateTabIn(env, ts[i])]

\* A Load that hands the global interval on as the file gives it.
LoadKeepsGlobal(env) ==
    LET r == loadFromConfig(env)
        validated == [i \in 1..Len(r.cfg.Tabs) |-> validateTabIn(env, r.cfg.Tabs[i])]
        global == r.cfg.GlobalRefreshInterval
    IN  IF r.ok /\ Len(validated) > 0
        THEN [cfg |-> [r.cfg EXCEPT !.GlobalRefreshInterval = global],
              tabs |-> [i \in 1..Len(validated) |->
                          IF validated[i].RefreshInterval <= 0
                          THEN [validated[i] EXCEPT !.RefreshInterval = global]
                          ELSE validated[i]]]
        ELSE [cfg |-> [Tabs |-> << >>, GlobalRefreshInterval |-> DefaultInterval],
              tabs |-> buildDefaultTabs(env)]

\* Load: the Config and the tabs it returns.
Load(env) ==
    LET r == loadFromConfig(env)
        validated == [i \in 1..Len(r.cfg.Tabs) |-> validateTabIn(env, r.cfg.Tabs[i])]
        global == IF r.cfg.GlobalRefreshInterval <= 0
                  THEN DefaultInterval
                  ELSE r.cfg.GlobalRefreshInterval
    IN  IF r.ok /\ Len(validated) > 0
        THEN [cfg |-> [r.cfg EXCEPT !.GlobalRefreshInterval = global],
              tabs |-> [i \in 1..Len(validated) |->
                          IF validated[i].RefreshInterval <= 0
                          THEN [validated[i] EXCEPT !.RefreshInterval = global]
                          ELSE validated[i]]]
        ELSE [cfg |-> [Tabs |-> << >>, GlobalRefreshInterval |-> DefaultInterval],
              tabs |-> buildDefaultTabs(env)]

\* The environments Load is run in: PERFMON_CONFIG set or not, the user
\* configuration directory known or not, the file at each path, the tools
\* installed, and the operating system.
LoadEnvs ==
    [envSet : BOOLEAN,
     userDirOk : BOOLEAN,
     files : [{EnvPath, UserPath, LocalPath} -> ConfigFiles],
     installed : {{}, {"uptime", "vmstat", "iostat", "top", "free", "screenfetch"},
                  {"uptime", "mpstat", "sar", "vm_stat", "neofetch", "fastfetch"}},
     darwin : BOOLEAN]

InitLoad ==
    /\ HistoryIdle
    /\ TabsIdle
    /\ SanitizeIdle
    /\ UIIdle
    /\ NetIdle
    /\ SamplingIdle
    /\ CPUIdle
    /\ ConfigIdle
    /\ FormatIdle
    /\ ldEnv \in LoadEnvs
    /\ ldResult = << >>
    /\ ldPc = "ready"

\* One call of Load.
LoadTabs ==
    /\ ldPc = "ready"
    /\ ldResult' = Load(ldEnv)
    /\ ldPc' = "done"
    /\ UNCHANGED ldEnv
    /\ UNCHANGED <<histVars, tabVars, sanVars, uiVars, netVars, smpVars, cpuVars,
                   cfgVars, fmtVars>>

NextLoad == LoadTabs

SpecLoad == InitLoad /\ [][NextLoad]_vars

\* A file qualifies when it can be read, parses and holds at least one tab
\* with a title and a command.
Qualifies(f) ==
    /\ f.readable
    /\ f.parses
    /\ \E i \in 1..Len(f.cfg.Tabs) :
          f.cfg.Tabs[i].Title # "" /\ Len(f.cfg.Tabs[i].Cmd) > 0

\* The places searched, in the documented order.
SearchOrder(env) ==
    LET all == <<EnvPath, UserPath, LocalPath>>
        searched(p) == \/ p = EnvPath /\ env.envSet
                       \/ p = UserPath /\ env.userDirOk
                       \/ p = LocalPath
    IN  SelectSeq(all, searched)

\* The titles and commands of a list of tabs, in order.
TitlesAndCmds(ts) == [i \in 1..Len(ts) |-> <<ts[i].Title, ts[i].Cmd>>]

\* The tabs of a file that have a title and a command.
UsableTabs(f) ==
    LET usable(t) == t.Title # "" /\ Len(t.Cmd) > 0
    IN  SelectSeq(f.cfg.Tabs, usable)

\* C21: Load returns a non-empty tab list in which every tab has a non-empty
\* title and a non-empty command: the tabs returned are those of one of the
\* searched files without the ones lacking a title or a command, and when no
\* searched file is readable, parses and holds such a tab they are the
\* built-in default tabs.
C21_LoadReturnsUsableTabs ==
    ldPc = "done"
        => LET ts == ldResult.tabs
               order == SearchOrder(ldEnv)
               candidates == {ldEnv.files[order[k]] : k \in 1..Len(order)}
           IN  /\ Len(ts) > 0
               /\ \A i \in 1..Len(ts) : ts[i].Title # "" /\ Len(ts[i].Cmd) > 0
               /\ (\E f \in candidates : Qualifies(f))
                    => \E f \in candidates :
                          /\ Qualifies(f)
                          /\ TitlesAndCmds(ts) = TitlesAndCmds(UsableTabs(f))
               /\ (\A f \in candidates : ~Qualifies(f))
                    => /\ Len(ts) = 10
                       /\ ts[1].Title = "uptime"
                       /\ ts[10].Title \in {"fastfetch", "neofetch", "screenfetch",
                                             "fetch (missing)"}

\* A file with four tabs of which two lack a title or a command: the two
\* others are returned.
C21_Witness ==
    /\ ldPc = "done"
    /\ ldEnv.envSet
    /\ Len(ldEnv.files[EnvPath].cfg.Tabs) = 4
    /\ TitlesAndCmds(ldResult.tabs)
         = << <<"load", <<"uptime">>>>, <<"cpu", <<"mpstat", "-P", "ALL">>>> >>

\* No file qualifies although every path holds one: the defaults are returned.
C21_WitnessDefaults ==
    /\ ldPc = "done"
    /\ ldEnv.envSet
    /\ ldEnv.userDirOk
    /\ \A p \in {EnvPath, UserPath, LocalPath} :
          ldEnv.files[p].readable /\ ~Qualifies(ldEnv.files[p])
    /\ Len(ldResult.tabs) = 10

\* C22: the tabs come from the first file, in the order PERFMON_CONFIG, user
\* configuration directory, ./perfmon.toml, that is readable, parses and
\* holds at least one valid tab; a file before it that is missing, malformed
\* or without a valid tab does not stop the search, and a file after it is
\* never used.
C22_FirstQualifyingFileWins ==
    ldPc = "done"
        => LET order == SearchOrder(ldEnv)
               hits == {k \in 1..Len(order) : Qualifies(ldEnv.files[order[k]])}
           IN  hits # {}
                 => LET first == CHOOSE k \in hits : \A j \in hits : k <= j
                        f == ldEnv.files[order[first]]
                    IN  /\ TitlesAndCmds(ldResult.tabs) = TitlesAndCmds(UsableTabs(f))
                        /\ ldResult.cfg.Tabs = UsableTabs(f)

\* The PERFMON_CONFIG file is malformed, the user file has no valid tab, and
\* perfmon.toml is used.
C22_Witness ==
    /\ ldPc = "done"
    /\ ldEnv.envSet
    /\ ldEnv.userDirOk
    /\ ldEnv.files[EnvPath].readable
    /\ ~ldEnv.files[EnvPath].parses
    /\ Len(ldEnv.files[UserPath].cfg.Tabs) = 2
    /\ ~Qualifies(ldEnv.files[UserPath])
    /\ TitlesAndCmds(ldResult.tabs) = << <<"net", <<"sar", "-n", "DEV">>>> >>

\* C23: every tab Load returns has a refresh interval above zero: a
\* configured tab keeps its own interval when that is above zero and takes
\* the global one otherwise, the global one being 5 s when it is absent or
\* not above zero; every default tab has 5 s.
C23_RefreshIntervalPositive ==
    ldPc = "done"
        => LET ts == ldResult.tabs
               r == loadFromConfig(ldEnv)
               given == r.cfg.GlobalRefreshInterval
           IN  /\ \A i \in 1..Len(ts) : ts[i].RefreshInterval > 0
               /\ r.ok => \A i \in 1..Len(ts) :
                            LET own == r.cfg.Tabs[i].RefreshInterval
                            IN  ts[i].RefreshInterval
                                  = IF own > 0 THEN own
                                    ELSE IF given > 0 THEN given ELSE 5
               /\ ~r.ok => \A i \in 1..Len(ts) : ts[i].RefreshInterval = 5

\* A tab without an interval of its own in a file whose global interval is
\* negative: the tab gets 5 s.
C23_Witness ==
    /\ ldPc = "done"
    /\ ~ldEnv.envSet
    /\ ~ldEnv.userDirOk
    /\ ldEnv.files[LocalPath].cfg.GlobalRefreshInterval < 0
    /\ Len(ldResult.tabs) = 1
    /\ ldResult.tabs[1].Title = "net"
    /\ ldResult.tabs[1].RefreshInterval = 5

(***************************************************************************)
(* Rate formatting.  monitor.FormatRate takes a float64 of KB/s; here a    *)
(* rate is a whole number of quarters of a KB/s, which float64 holds       *)
(* exactly, as it does its quotient by 1024.  fmt rounds to the nearest    *)
(* decimal of the precision asked for, a tie going to the even digit.      *)
(***************************************************************************)

\* Largest rate formatted, in quarters of a KB/s (a little over 2 MB/s).
MaxRate == 8200

\* n / d rounded to the nearest whole number, ties to even (n >= 0, d > 0).
RoundHalfEven(n, d) ==
    LET f == n \div d
        r == n % d
    IN  IF 2 * r < d THEN f
        ELSE IF 2 * r > d THEN f + 1
        ELSE IF f % 2 = 0 THEN f ELSE f + 1

\* fmt.Sprintf("%0.0f", q / 4).
SprintfWhole(q) == ToString(RoundHalfEven(q, 4))

\* fmt.Sprintf("%0.1f", q / 4 / 1024).
SprintfOneDecimal(q) ==
    LET tenths == RoundHalfEven(10 * q, 4 * 1024)
    IN  ToString(tenths \div 10) \o "." \o ToString(tenths % 10)

\* A FormatRate that still counts 1024 KB/s in KB.
FormatRateUpTo1024(q) ==
    IF q <= 4 * 1024
    THEN SprintfWhole(q) \o "KB/s"
    ELSE SprintfOneDecimal(q) \o "MB/s"

\* FormatRate(kbPerSec) with kbPerSec = q / 4.
FormatRate(q) ==
    IF q < 4 * 1024
    THEN SprintfWhole(q) \o "KB/s"
    ELSE SprintfOneDecimal(q) \o "MB/s"

InitFormat ==
    /\ HistoryIdle
    /\ TabsIdle
    /\ SanitizeIdle
    /\ UIIdle
    /\ NetIdle
    /\ SamplingIdle
    /\ CPUIdle
    /\ ConfigIdle
    /\ LoadIdle
    /\ fRate \in 0..MaxRate
    /\ fText = ""
    /\ fPc = "ready"

\* One call of FormatRate.
FormatOne ==
    /\ fPc = "ready"
    /\ fText' = FormatRate(fRate)
    /\ fPc' = "done"
    /\ UNCHANGED fRate
    /\ UNCHANGED <<histVars, tabVars, sanVars, uiVars, netVars, smpVars, cpuVars,
                   cfgVars, loadVars>>

NextFormat == FormatOne

SpecFormat == InitFormat /\ [][NextFormat]_vars

\* C24: a rate below 1024 KB/s is rendered as the nearest whole number
\* followed by "KB/s", a rate of 1024 KB/s or more as rate/1024 to the
\* nearest tenth, with exactly one decimal, followed by "MB/s"; 0 gives
\* 0KB/s, 500 gives 500KB/s, 1023 gives 1023KB/s, 1024 gives 1.0MB/s, 1536
\* gives 1.5MB/s and 2048 gives 2.0MB/s.
C24_FormatRateUnits ==
    fPc = "done"
        => /\ fRate < 4096
                => \E n \in {fRate \div 4, fRate \div 4 + 1} :
                      /\ fText = ToString(n) \o "KB/s"
                      /\ 4 * n - fRate \in -2..2
           /\ fRate >= 4096
                => \E t \in {(10 * fRate) \div 4096, (10 * fRate) \div 4096 + 1} :
                      /\ fText = ToString(t \div 10) \o "." \o ToString(t % 10) \o "MB/s"
                      /\ 2 * (4096 * t - 10 * fRate) \in -4096..4096
           /\ fRate = 0 => fText = "0KB/s"
           /\ fRate = 4 * 500 => fText = "500KB/s"
           /\ fRate = 4 * 1023 => fText = "1023KB/s"
           /\ fRate = 4 * 1024 => fText = "1.0MB/s"
           /\ fRate = 4 * 1536 => fText = "1.5MB/s"
           /\ fRate = 4 * 2048 => fText = "2.0MB/s"

\* The first rate shown in MB/s.
C24_Witness ==
    /\ fPc = "done"
    /\ fRate = 4 * 1024
    /\ fText = "1.0MB/s"

====
